---- MODULE Spec2Model ----
(***************************************************************************)
(* Model of the resource-governed signal pipeline of mein-dashboard:       *)
(*   - backend/api/rate_limiter.py     (TokenBucket, RateLimiter)          *)
(*   - backend/data/cache_manager.py   (CacheManager)                      *)
(*   - backend/ai_agent/signal_generator.py, backend/indicators/technical  *)
(*   - backend/main.py                 (get_coin_analysis)                 *)
(*                                                                         *)
(* Token counts are real-valued in the code.  Every refill rate of the     *)
(* code has at most five decimals, so tokens are kept as integers in units *)
(* of 1/TokenScale token and rates in such units per second; time is in    *)
(* whole seconds.                                                          *)
(***************************************************************************)
EXTENDS Integers, Sequences, FiniteSets, TLC

\* (the second of two, whichever is smaller)
Latter(a, b) == b

Min(a, b) == IF a <= b THEN a ELSE b
Max(a, b) == IF a >= b THEN a ELSE b

(***************************************************************************)
(* Bounds of the model.                                                    *)
(***************************************************************************)
NumTasks == 3
MaxCalls == 3
MaxStart == 1

(***************************************************************************)
(* RateLimiter._init_limiters: the configured sources.                     *)
(***************************************************************************)
TokenScale == 100000

Sources == {"coingecko", "binance", "glassnode", "cryptoquant"}

UnknownSource == "unconfigured"

capacity ==
  [coingecko |-> 45, binance |-> 1100, glassnode |-> 100, cryptoquant |-> 300]

\* tokens per second, in units of 1/TokenScale: 0.75, 18.33, 0.00115, 0.00347
refill_rate ==
  [coingecko |-> 75000, binance |-> 1833000, glassnode |-> 115,
   cryptoquant |-> 347]

Tasks == 1 .. NumTasks

NoTask == 0

\* the units a caller may ask for: one, the whole bucket, more than the bucket
UnitChoices(s) ==
  IF s \in Sources THEN {1, capacity[s], capacity[s] + 1} ELSE {1}

\* gaps (seconds) the environment may let pass between two steps
Gaps == {1, 60}

VARIABLES
  now,          \* time.time(), whole seconds
  limiters,     \* RateLimiter.limiters: source -> TokenBucket
  stats,        \* RateLimiter.stats
  task,         \* each task's position inside RateLimiter.acquire
  calls,        \* acquire calls started so far
  added,        \* history: units every _refill added, per source
  spent,        \* history: tokens of the acquires that returned, per source
  result,       \* history: each task's last acquire that returned
  request_queues, \* RateLimiter.request_queues: source -> PriorityQueue
  use_redis,      \* CacheManager.use_redis
  redis_client,   \* CacheManager.redis_client: "None" or "client"
  fallback_cache, \* CacheManager.fallback_cache: key -> (value, expires_at)
  redis_store,    \* the keys of the Redis server: key -> (data, expiry)
  redis_up,       \* the Redis server answers
  started,        \* the application's startup has called connect()
  cache_ops,      \* cache operations called so far
  last_op,        \* history: the last cache operation and its outcome
  last_set,       \* history: per key, the last set that stored it
  primary_failed, \* history: the primary tier has failed a connect or a call
  fusion,         \* the last generate_signal call: its arguments and result
  run             \* each get_coin_analysis request: its position and data

rlVars ==
  <<now, limiters, stats, task, calls, added, spent, result, request_queues>>

cacheVars ==
  <<use_redis, redis_client, fallback_cache, redis_store, redis_up, started,
    cache_ops, last_op, last_set, primary_failed>>

notLimiter == <<cacheVars, fusion>>

notCache == <<rlVars, fusion>>

vars == <<rlVars, cacheVars, fusion, run>>

(***************************************************************************)
(* TokenBucket                                                             *)
(***************************************************************************)
\* TokenBucket.__init__
NewBucket(s) ==
  [tokens |-> capacity[s] * TokenScale, last_refill |-> 0,
   locked |-> NoTask, waiters |-> <<>>]

\* TokenBucket._refill: the token count after `elapsed` seconds
\* (computed without forming elapsed * refill_rate once the bucket is full)
Refilled(tok, s, elapsed) ==
  LET full == capacity[s] * TokenScale
  IN IF tok >= full \/ elapsed > (full - tok) \div refill_rate[s]
     THEN full
     ELSE Min(full, tok + elapsed * refill_rate[s])

\* TokenBucket.acquire, line 47
Enough(tok, u) == tok >= u * TokenScale

\* (a wait for one token, whatever was asked for)
DeficitOfOne(tok, u) == TokenScale - tok

\* TokenBucket.acquire, line 52: wait_time * refill_rate
Deficit(tok, u) == u * TokenScale - tok


\* TokenBucket.acquire, lines 48 and 62
Debit(tok, u) == tok - u * TokenScale

\* whole seconds until a sleep for `need` units is over
WakeAfter(need, s) ==
  IF need <= 0 THEN 0 ELSE (need + refill_rate[s] - 1) \div refill_rate[s]

\* (a sleep that may return a second early)
SleepCutShort(need, s, slept) == slept + 1 >= WakeAfter(need, s)

\* asyncio.sleep(wait_time) is over once wait_time seconds have passed:
\* slept * refill_rate >= need
SleepOver(need, s, slept) == slept >= WakeAfter(need, s)

NewStats ==
  [total_requests |-> 0, successful_requests |-> 0, failed_requests |-> 0,
   total_wait_time |-> 0]

\* PriorityQueue.__init__
NewQueue == [critical |-> <<>>, high |-> <<>>, medium |-> <<>>, low |-> <<>>]

\* (a critical caller put before the waiters)
QueuedByPriority(waiters, t, priority) ==
  IF priority = "critical" THEN <<t>> \o waiters ELSE Append(waiters, t)

\* (a caller that is not put among the waiters)
NotQueued(waiters, t, priority) == waiters

\* asyncio.Lock.acquire: a caller that finds the lock held joins the end of
\* the lock's waiters, whatever its priority
Queued(waiters, t, priority) == Append(waiters, t)

\* (a sleep during which the lock is free)
NoHolder(t) == NoTask

\* `async with self._lock` spans the sleep: the sleeping task holds the lock
Holder(t) == t

\* a task outside acquire; `ticket` (history) numbers the calls in the order
\* in which they were made
IdleTask ==
  [pc |-> "idle", source |-> UnknownSource, priority |-> "medium",
   units |-> 0, start_time |-> 0, need |-> 0, sleep_from |-> 0, avail |-> 0,
   ticket |-> 0]

\* RateLimiter.acquire, lines 179-187
Counted(st, success, wait_time) ==
  [total_requests |-> st.total_requests + 1,
   successful_requests |->
     st.successful_requests + (IF success THEN 1 ELSE 0),
   failed_requests |-> st.failed_requests + (IF success THEN 0 ELSE 1),
   total_wait_time |-> st.total_wait_time + wait_time]

\* the value TokenBucket.acquire returns on its fast path (line 49) and after
\* its sleep (line 63)
FastReturn == TRUE

SlowRejects == FALSE

SlowReturn == TRUE

NoResult ==
  [returned |-> FALSE, value |-> FALSE, source |-> UnknownSource,
   units |-> 0, avail |-> 0, waited |-> 0]

\* what a returning acquire leaves behind: its value, the tokens it asked
\* for, the tokens that were available when it was called and the seconds
\* between the call and the return
Returned(v, s, u, avail, waited) ==
  [returned |-> TRUE, value |-> v, source |-> s, units |-> u,
   avail |-> avail, waited |-> waited]

(***************************************************************************)
(* Steps of a task inside RateLimiter.acquire.  The tasks are coroutines   *)
(* of one event loop: a step runs from one suspension point (waiting for   *)
(* the bucket's lock, asyncio.sleep) to the next.                          *)
(***************************************************************************)
\* the bucket's lock is held by t: _refill, then debit or sleep
Enter(t, s, priority, u, start, avail) ==
  LET b    == limiters[s]
      tok  == Refilled(b.tokens, s, now - b.last_refill)
      more == tok - b.tokens
  IN IF Enough(tok, u)
     THEN /\ limiters' = [limiters EXCEPT ![s] =
                 [b EXCEPT !.tokens = Debit(tok, u), !.last_refill = now,
                           !.locked = NoTask]]
          /\ added' = [added EXCEPT ![s] = @ + more]
          /\ spent' = [spent EXCEPT ![s] = @ + u]
          /\ stats' = [stats EXCEPT ![s] = Counted(@, FastReturn, now - start)]
          /\ result' = [result EXCEPT ![t] =
                 Returned(FastReturn, s, u, avail, now - start)]
          /\ task' = [task EXCEPT ![t] = IdleTask]
     ELSE /\ limiters' = [limiters EXCEPT ![s] =
                 [b EXCEPT !.tokens = tok, !.last_refill = now,
                           !.locked = Holder(t)]]
          /\ added' = [added EXCEPT ![s] = @ + more]
          /\ task' = [task EXCEPT ![t] =
                 [pc |-> "sleep", source |-> s, priority |-> priority,
                  units |-> u, start_time |-> start,
                  need |-> Deficit(tok, u), sleep_from |-> now,
                  avail |-> avail, ticket |-> calls + 1]]
          /\ UNCHANGED <<spent, stats, result>>

\* RateLimiter.acquire is called: an unconfigured source is let through, a
\* held lock suspends the caller, a free lock is taken
Call(t, s, priority, u) ==
  /\ task[t].pc = "idle"
  /\ calls' = calls + 1
  /\ UNCHANGED <<now, request_queues, notLimiter>>
  /\ IF s \notin Sources
     THEN /\ result' = [result EXCEPT ![t] = Returned(TRUE, s, u, 0, 0)]
          /\ UNCHANGED <<limiters, stats, task, added, spent>>
     ELSE LET b     == limiters[s]
              avail == Refilled(b.tokens, s, now - b.last_refill)
          IN IF b.locked # NoTask \/ b.waiters # <<>>
             THEN /\ limiters' =
                       [limiters EXCEPT ![s].waiters = Queued(@, t, priority)]
                  /\ task' = [task EXCEPT ![t] =
                        [pc |-> "lock", source |-> s, priority |-> priority,
                         units |-> u, start_time |-> now, need |-> 0,
                         sleep_from |-> 0, avail |-> avail,
                         ticket |-> calls + 1]]
                  /\ UNCHANGED <<stats, added, spent, result>>
             ELSE Enter(t, s, priority, u, now, avail)

\* the lock was released and t is the first waiter
GetLock(t) ==
  /\ task[t].pc = "lock"
  /\ LET s == task[t].source
         b == limiters[s]
     IN /\ b.locked = NoTask
        /\ b.waiters # <<>>
        /\ Head(b.waiters) = t
        /\ LET tok  == Refilled(b.tokens, s, now - b.last_refill)
               more == tok - b.tokens
               u    == task[t].units
           IN IF Enough(tok, u)
              THEN /\ limiters' = [limiters EXCEPT ![s] =
                         [tokens |-> Debit(tok, u), last_refill |-> now,
                          locked |-> NoTask, waiters |-> Tail(b.waiters)]]
                   /\ added' = [added EXCEPT ![s] = @ + more]
                   /\ spent' = [spent EXCEPT ![s] = @ + u]
                   /\ stats' = [stats EXCEPT ![s] =
                         Counted(@, FastReturn, now - task[t].start_time)]
                   /\ result' = [result EXCEPT ![t] =
                         Returned(FastReturn, s, u, task[t].avail,
                                  now - task[t].start_time)]
                   /\ task' = [task EXCEPT ![t] = IdleTask]
              ELSE /\ limiters' = [limiters EXCEPT ![s] =
                         [tokens |-> tok, last_refill |-> now,
                          locked |-> Holder(t), waiters |-> Tail(b.waiters)]]
                   /\ added' = [added EXCEPT ![s] = @ + more]
                   /\ task' = [task EXCEPT ![t] =
                         [@ EXCEPT !.pc = "sleep", !.need = Deficit(tok, u),
                                   !.sleep_from = now]]
                   /\ UNCHANGED <<spent, stats, result>>
  /\ UNCHANGED <<now, calls, request_queues, notLimiter>>

\* asyncio.sleep returns: _refill, debit, release the lock, count the call
Wake(t) ==
  /\ task[t].pc = "sleep"
  /\ LET s    == task[t].source
         b    == limiters[s]
         u    == task[t].units
         tok  == Refilled(b.tokens, s, now - b.last_refill)
         more == tok - b.tokens
     IN /\ SleepOver(task[t].need, s, now - task[t].sleep_from)
        /\ limiters' = [limiters EXCEPT ![s] =
              [b EXCEPT !.tokens = Debit(tok, u), !.last_refill = now,
                        !.locked = NoTask]]
        /\ added' = [added EXCEPT ![s] = @ + more]
        /\ spent' = [spent EXCEPT ![s] = @ + u]
        /\ stats' = [stats EXCEPT ![s] =
              Counted(@, SlowReturn, now - task[t].start_time)]
        /\ result' = [result EXCEPT ![t] =
              Returned(SlowReturn, s, u, task[t].avail,
                       now - task[t].start_time)]
        /\ task' = [task EXCEPT ![t] = IdleTask]
  /\ UNCHANGED <<now, calls, request_queues, notLimiter>>

\* the earliest time at which a sleeping task's sleep is over
WakeTimes ==
  {task[t].sleep_from + WakeAfter(task[t].need, task[t].source) :
     t \in {x \in Tasks : task[x].pc = "sleep"}}

\* time passes while the tasks run or stand idle
Advance(d) ==
  /\ now < MaxStart
  /\ now' = now + d
  /\ UNCHANGED <<limiters, stats, task, calls, added, spent, result,
               request_queues>>
  /\ UNCHANGED notLimiter

\* time passes until the next sleep is over
AdvanceToWake ==
  /\ \E w \in WakeTimes : w > now
  /\ \A w \in WakeTimes : w > now
  /\ now' = CHOOSE w \in WakeTimes : \A x \in WakeTimes : w <= x
  /\ UNCHANGED <<limiters, stats, task, calls, added, spent, result,
               request_queues>>
  /\ UNCHANGED notLimiter

(***************************************************************************)
(* CacheManager.  The primary tier is a Redis server, the fallback tier    *)
(* the dict fallback_cache.  A value is a document: one that JSON holds as *)
(* it is, one that holds a datetime (as the pipeline's result does, which  *)
(* json.dumps(default=str) writes as text), or one json.dumps cannot write *)
(* (a circular reference).                                                 *)
(***************************************************************************)
MaxCacheOps == 4
MaxCacheTime == 60

TTL_PRICE == 30
TTL_TECHNICAL == 60

CacheStep == 30

Keys == {<<"signal", "BTC">>, <<"price", "BTC">>}

Patterns == {"signal", "price", ""}

\* a cached document: what it is, the request that made it (0: none) and
\* its form: "plain" holds what JSON holds, "stamped" holds a datetime,
\* "text" holds the text of one, "cyclic" refers to itself
Doc(d, r, form) == [doc |-> d, by |-> r, form |-> form]

Values == {Doc("doc", 0, f) : f \in {"plain", "stamped", "cyclic"}}

TTLs == {TTL_PRICE, TTL_TECHNICAL}

None == Doc("None", 0, "none")

\* json.dumps(value, default=str) raises on a circular reference
CanDump(v) == v.form # "cyclic"

\* json.dumps(value, default=str): a datetime is written as its text
Dumps(v) ==
  [v EXCEPT !.form = IF @ \in {"stamped", "text"} THEN "json_text" ELSE "json"]

\* json.loads raises on data that is not JSON
CanLoad(data) == data.form \in {"json", "json_text"}

\* json.loads(value)
Loads(data) ==
  [data EXCEPT !.form = IF @ = "json_text" THEN "text" ELSE "plain"]

\* bytes in the store that are not JSON
NotJson == Doc("doc", 0, "not json")

NoEntry == [present |-> FALSE, value |-> None, expires_at |-> 0]

Entry(v, exp) == [present |-> TRUE, value |-> v, expires_at |-> exp]

\* redis_client before connect() and after a failed connect()
NoClient == "None"

\* `if self.use_redis and self.redis_client`
UsesPrimary == use_redis /\ redis_client # NoClient

\* CacheManager.get, line 94: the fallback entry is still fresh
Fresh(e, t) == t < e.expires_at

\* Redis GET: a key set with SETEX is gone once its seconds have passed
RedisGet(k) ==
  IF redis_store[k].present /\ now < redis_store[k].expires_at
  THEN redis_store[k].value
  ELSE None

\* scan_iter(match=pattern) and `pattern.replace("*", "") in k`, for the
\* patterns "<class>:*" and "*"
Matches(p, k) == p = "" \/ p = k[1]

(* an exception narrower than the one the handlers catch: only the faults  *)
(* of serialization are swallowed                                          *)
EscapesIO(fault) == fault = "io"

\* `except Exception` of get, set, delete and clear_pattern: no fault of the
\* body leaves the operation
Escapes(fault) == FALSE

\* what is left of an operation: its name and key, the tier it went to, the
\* fault its body met ("none", "io", "serialization"), whether it raised,
\* the value it returned and whether it changed a store
Outcome(op, k, fault, ret, at) ==
  [op |-> op, key |-> k, primary |-> UsesPrimary, fault |-> fault,
   raised |-> Escapes(fault), ret |-> IF fault = "none" THEN ret ELSE None,
   at |-> at]

NoOp ==
  [op |-> "none", key |-> <<"", "">>, primary |-> FALSE, fault |-> "none",
   raised |-> FALSE, ret |-> None, at |-> 0]

NoSet == [valid |-> FALSE, value |-> None, at |-> 0, ttl |-> 0]

InitCache ==
  /\ use_redis = TRUE
  /\ redis_client = NoClient
  /\ fallback_cache = [k \in Keys |-> NoEntry]
  /\ redis_store = [k \in Keys |-> NoEntry]
  /\ redis_up \in BOOLEAN
  /\ started = FALSE
  /\ cache_ops = 0
  /\ last_op = NoOp
  /\ last_set = [k \in Keys |-> NoSet]
  /\ primary_failed = FALSE

\* CacheManager.connect, called once by the application's startup
Connect ==
  /\ ~started
  /\ started' = TRUE
  /\ IF redis_up
     THEN /\ redis_client' = "client"
          /\ UNCHANGED <<use_redis, primary_failed>>
     ELSE /\ use_redis' = FALSE
          /\ redis_client' = NoClient
          /\ primary_failed' = TRUE
  /\ UNCHANGED <<fallback_cache, redis_store, redis_up, cache_ops, last_op,
                 last_set, notCache>>

CacheCall ==
  /\ started
  /\ cache_ops < MaxCacheOps
  /\ cache_ops' = cache_ops + 1
  /\ UNCHANGED <<use_redis, redis_client, redis_up, started, notCache>>

\* CacheManager.get
Get(k) ==
  /\ CacheCall
  /\ IF UsesPrimary
     THEN LET fault == IF ~redis_up THEN "io"
                       ELSE IF RedisGet(k) # None /\ ~CanLoad(RedisGet(k))
                            THEN "serialization" ELSE "none"
              ret == IF RedisGet(k) # None THEN Loads(RedisGet(k)) ELSE None
          IN /\ last_op' = Outcome("get", k, fault, ret, now)
             /\ primary_failed' = (primary_failed \/ fault = "io")
             /\ UNCHANGED fallback_cache
     ELSE LET cached == fallback_cache[k]
              hit    == cached.present /\ Fresh(cached, now)
          IN /\ last_op' =
                  Outcome("get", k, "none",
                          IF hit THEN cached.value ELSE None, now)
             /\ fallback_cache' =
                  IF cached.present /\ ~hit
                  THEN [fallback_cache EXCEPT ![k] = NoEntry]
                  ELSE fallback_cache
             /\ UNCHANGED primary_failed
  /\ UNCHANGED <<redis_store, last_set>>

\* CacheManager.set
Set(k, v, ttl) ==
  /\ CacheCall
  /\ LET fault == IF ~CanDump(v) THEN "serialization"
                  ELSE IF UsesPrimary /\ ~redis_up THEN "io" ELSE "none"
     IN /\ last_op' = Outcome("set", k, fault, None, now)
        /\ primary_failed' = (primary_failed \/ fault = "io")
        /\ IF fault # "none"
           THEN UNCHANGED <<redis_store, fallback_cache, last_set>>
           ELSE /\ last_set' = [last_set EXCEPT ![k] =
                      [valid |-> TRUE, value |-> v, at |-> now, ttl |-> ttl]]
                /\ IF UsesPrimary
                   THEN /\ redis_store' = [redis_store EXCEPT ![k] =
                              Entry(Dumps(v), now + ttl)]
                        /\ UNCHANGED fallback_cache
                   ELSE /\ fallback_cache' = [fallback_cache EXCEPT ![k] =
                              Entry(v, now + ttl)]
                        /\ UNCHANGED redis_store

\* CacheManager.delete
Delete(k) ==
  /\ CacheCall
  /\ LET fault == IF UsesPrimary /\ ~redis_up THEN "io" ELSE "none"
     IN /\ last_op' = Outcome("delete", k, fault, None, now)
        /\ primary_failed' = (primary_failed \/ fault = "io")
        /\ IF fault # "none"
           THEN UNCHANGED <<redis_store, fallback_cache, last_set>>
           ELSE /\ last_set' = [last_set EXCEPT ![k] = NoSet]
                /\ IF UsesPrimary
                   THEN /\ redis_store' = [redis_store EXCEPT ![k] = NoEntry]
                        /\ UNCHANGED fallback_cache
                   ELSE /\ fallback_cache' =
                              [fallback_cache EXCEPT ![k] = NoEntry]
                        /\ UNCHANGED redis_store

\* CacheManager.clear_pattern
ClearPattern(p) ==
  /\ CacheCall
  /\ LET fault == IF UsesPrimary /\ ~redis_up THEN "io" ELSE "none"
         Cleared(store) ==
           [k \in Keys |-> IF Matches(p, k) THEN NoEntry ELSE store[k]]
     IN /\ last_op' = Outcome("clear_pattern", <<p, "*">>, fault, None, now)
        /\ primary_failed' = (primary_failed \/ fault = "io")
        /\ IF fault # "none"
           THEN UNCHANGED <<redis_store, fallback_cache, last_set>>
           ELSE /\ last_set' =
                     [k \in Keys |-> IF Matches(p, k) THEN NoSet ELSE last_set[k]]
                /\ IF UsesPrimary
                   THEN /\ redis_store' = Cleared(redis_store)
                        /\ UNCHANGED fallback_cache
                   ELSE /\ fallback_cache' = Cleared(fallback_cache)
                        /\ UNCHANGED redis_store

cacheEnvFrame ==
  <<use_redis, redis_client, fallback_cache, started, cache_ops, last_op,
    primary_failed>>

\* the Redis server becomes unreachable, or reachable again
RedisToggle ==
  /\ started
  /\ cache_ops < MaxCacheOps
  /\ redis_up' = ~redis_up
  /\ UNCHANGED <<cacheEnvFrame, redis_store, last_set, notCache>>

\* another writer of the shared store leaves data that is not JSON
ForeignWrite(k) ==
  /\ redis_up
  /\ cache_ops < MaxCacheOps
  /\ redis_store[k] # Entry(NotJson, MaxCacheTime + 1)
  /\ redis_store' = [redis_store EXCEPT ![k] =
        Entry(NotJson, MaxCacheTime + 1)]
  /\ last_set' = [last_set EXCEPT ![k] = NoSet]
  /\ UNCHANGED <<cacheEnvFrame, redis_up, notCache>>

\* the clock of datetime.utcnow() and of the Redis server
CacheTick ==
  /\ now + CacheStep <= MaxCacheTime
  /\ now' = now + CacheStep
  /\ UNCHANGED <<limiters, stats, task, calls, added, spent, result,
               request_queues>>
  /\ UNCHANGED <<cacheVars, fusion>>

NextCache ==
  \/ Connect /\ UNCHANGED run
  \/ \E k \in Keys : Get(k) /\ UNCHANGED run
  \/ \E k \in Keys, v \in Values, ttl \in TTLs :
        Set(k, v, ttl) /\ UNCHANGED run
  \/ \E k \in Keys : Delete(k) /\ UNCHANGED run
  \/ \E p \in Patterns : ClearPattern(p) /\ UNCHANGED run
  \/ RedisToggle /\ UNCHANGED run
  \/ \E k \in Keys : ForeignWrite(k) /\ UNCHANGED run
  \/ CacheTick /\ UNCHANGED run

(***************************************************************************)
(* SignalGenerator (signal_generator.py) and the scoring of the indicator  *)
(* engine (technical.py).  Scores are integers.  Prices and levels are in  *)
(* cents, the volume ratio in tenths, a position size in tenths of a       *)
(* percent.  A price times 1.1 is taken as the exact decimal; where the    *)
(* doubles of the code decide an outcome (int() of a weighted sum, the     *)
(* rounding of a size halfway between two tenths) the outcome of the       *)
(* doubles is tabulated.                                                   *)
(***************************************************************************)
\* None in an optional numeric field
NoneNum == -999

SignalTypes ==
  {"STRONG_BUY", "BUY", "WEAK_BUY", "HOLD", "WEAK_SELL", "SELL",
   "STRONG_SELL"}

\* `if x:` on an optional number: neither None nor zero
Truthy(x) == x # NoneNum /\ x # 0

\* (a score left as it is)
NoClamp(score) == score

\* max(0, min(100, score))
Clamp(score) == Max(0, Min(100, score))

\* (a score whose volume term does not look at the running score)
SimpleSumScore(indicators) ==
  LET rsi == indicators.rsi
      volume_ratio == indicators.volume_ratio
  IN Clamp(50
       + (IF ~Truthy(rsi) THEN 0
          ELSE IF rsi < 30 THEN 20
          ELSE IF rsi < 40 THEN 10
          ELSE IF rsi > 70 THEN -20
          ELSE IF rsi > 60 THEN -10 ELSE 0)
       + (IF indicators.macd_signal = "BULLISH" THEN 20
          ELSE IF indicators.macd_signal = "BEARISH" THEN -20 ELSE 0)
       + (IF indicators.trend = "STRONG_UPTREND" THEN 30
          ELSE IF indicators.trend = "UPTREND" THEN 15
          ELSE IF indicators.trend = "STRONG_DOWNTREND" THEN -30
          ELSE IF indicators.trend = "DOWNTREND" THEN -15 ELSE 0)
       + (IF indicators.bb_signal = "OVERSOLD" THEN 15
          ELSE IF indicators.bb_signal = "OVERBOUGHT" THEN -15
          ELSE IF indicators.bb_signal = "SQUEEZE" THEN 5 ELSE 0)
       + (IF ~Truthy(volume_ratio) THEN 0
          ELSE IF volume_ratio > 15 THEN 15
          ELSE IF volume_ratio < 5 THEN -5 ELSE 0))

\* TechnicalIndicators.calculate_technical_score (technical.py)
calculate_technical_score(indicators) ==
  LET rsi == indicators.rsi
      volume_ratio == indicators.volume_ratio
      s1 == 50 + (IF ~Truthy(rsi) THEN 0
                  ELSE IF rsi < 30 THEN 20
                  ELSE IF rsi < 40 THEN 10
                  ELSE IF rsi > 70 THEN -20
                  ELSE IF rsi > 60 THEN -10 ELSE 0)
      s2 == s1 + (IF indicators.macd_signal = "BULLISH" THEN 20
                  ELSE IF indicators.macd_signal = "BEARISH" THEN -20 ELSE 0)
      s3 == s2 + (IF indicators.trend = "STRONG_UPTREND" THEN 30
                  ELSE IF indicators.trend = "UPTREND" THEN 15
                  ELSE IF indicators.trend = "STRONG_DOWNTREND" THEN -30
                  ELSE IF indicators.trend = "DOWNTREND" THEN -15 ELSE 0)
      s4 == s3 + (IF indicators.bb_signal = "OVERSOLD" THEN 15
                  ELSE IF indicators.bb_signal = "OVERBOUGHT" THEN -15
                  ELSE IF indicators.bb_signal = "SQUEEZE" THEN 5 ELSE 0)
      s5 == IF ~Truthy(volume_ratio) THEN s4
            ELSE IF volume_ratio > 15
                 THEN (IF s4 > 50 THEN s4 + 15 ELSE s4 - 15)
            ELSE IF volume_ratio < 5
                 THEN (IF s4 > 50 THEN s4 - 5 ELSE s4 + 5)
            ELSE s4
  IN Clamp(s5)

\* SignalGenerator._determine_trend
_determine_trend(technical) ==
  IF ~(Truthy(technical.ema_20) /\ Truthy(technical.ema_50)
       /\ Truthy(technical.ema_200))
  THEN "UNKNOWN"
  ELSE LET current_price ==
             IF Truthy(technical.bb_middle) THEN technical.bb_middle ELSE 0
       IN IF current_price > technical.ema_200
          THEN IF technical.ema_20 > technical.ema_50
                  /\ technical.ema_50 > technical.ema_200
               THEN "STRONG_UPTREND" ELSE "UPTREND"
          ELSE IF current_price < technical.ema_200
          THEN IF technical.ema_20 < technical.ema_50
                  /\ technical.ema_50 < technical.ema_200
               THEN "STRONG_DOWNTREND" ELSE "DOWNTREND"
          ELSE "SIDEWAYS"

\* SignalGenerator._determine_bb_signal
_determine_bb_signal(technical) ==
  IF ~(Truthy(technical.bb_upper) /\ Truthy(technical.bb_middle)
       /\ Truthy(technical.bb_lower))
  THEN "NEUTRAL"
  ELSE IF technical.bb_middle < technical.bb_lower THEN "OVERSOLD"
  ELSE IF technical.bb_middle > technical.bb_upper THEN "OVERBOUGHT"
  ELSE "NEUTRAL"

\* SignalGenerator._calculate_technical_score
_calculate_technical_score(technical) ==
  calculate_technical_score(
    [rsi |-> technical.rsi,
     macd_signal |->
       IF technical.macd_histogram > 0 THEN "BULLISH" ELSE "BEARISH",
     trend |-> _determine_trend(technical),
     bb_signal |-> _determine_bb_signal(technical),
     volume_ratio |-> technical.volume_ratio])

\* SignalGenerator._calculate_macro_score
_calculate_macro_score(macro) ==
  LET dxy == macro.dxy
      vix == macro.vix
      fgi == macro.fear_greed_index
  IN Clamp(50
       + (IF ~Truthy(dxy) THEN 0
          ELSE IF dxy < 95 THEN 20
          ELSE IF dxy < 100 THEN 10
          ELSE IF dxy > 110 THEN -20
          ELSE IF dxy > 105 THEN -10 ELSE 0)
       + (IF ~Truthy(vix) THEN 0
          ELSE IF vix < 15 THEN 15
          ELSE IF vix < 20 THEN 5
          ELSE IF vix > 30 THEN -15
          ELSE IF vix > 25 THEN -5 ELSE 0)
       + (IF ~Truthy(fgi) THEN 0
          ELSE IF fgi < 25 THEN 15
          ELSE IF fgi < 40 THEN 5
          ELSE IF fgi > 75 THEN -15
          ELSE IF fgi > 60 THEN -5 ELSE 0))

\* SignalGenerator._map_ai_to_score: signal_map
signal_map ==
  [STRONG_BUY |-> 95, BUY |-> 75, WEAK_BUY |-> 60, HOLD |-> 50,
   WEAK_SELL |-> 40, SELL |-> 25, STRONG_SELL |-> 5]

\* SignalGenerator._map_ai_to_score: int(50 + (base - 50) * confidence / 100)
_map_ai_to_score(ai_analysis) ==
  (5000 + (signal_map[ai_analysis.rating] - 50) * ai_analysis.confidence)
    \div 100

\* the triples (technical * 101 + macro) * 101 + sentiment, 0 .. 100 each, whose
\* weighted sum is a whole number that the doubles of line 273-275 miss from
\* below, so that int() yields one less
ShortOfThree ==
  {110, 220, 250, 360, 370, 380, 390, 400, 440, 450, 500, 870, 880, 890,
   900, 910, 940, 950, 1370, 1380, 1390, 1400, 1820, 1880, 1890, 1900,
   2380, 2390, 2400, 3140, 3640, 4150, 4650, 4850, 5760, 5770, 5780, 6270,
   6280, 6770, 6780, 6790, 7280, 7290, 7780, 7790, 7800, 8290, 8300, 8790,
   8800, 9300, 9700, 9800, 10213, 10263, 10273, 10283, 10293, 10333,
   10343, 10353, 10513, 10653, 10763, 10773, 10783, 10793, 10803, 10813,
   10843, 10853, 10903, 11113, 11273, 11283, 11293, 11303, 11313, 11343,
   11353, 11413, 15053, 15563, 15573, 15583, 15593, 15603, 15663, 15673,
   15703, 15963, 15973, 15983, 15993, 16003, 16063, 16073, 16083, 16093,
   16103, 16163, 16173, 16183, 16463, 16473, 16483, 16493, 16503, 16573,
   16583, 16593, 16603, 16673, 16683, 16973, 16983, 16993, 17003, 17073,
   17083, 17093, 17103, 17173, 17183, 17193, 17473, 17483, 17493, 17503,
   17583, 17593, 17603, 17683, 17693, 17983, 17993, 18003, 18083, 18093,
   18103, 18183, 18193, 18203, 18483, 18493, 18503, 18593, 18603, 18693,
   18703, 18993, 19003, 19093, 19103, 19193, 19203, 19493, 19503, 19603,
   19703, 19903, 19913, 19923, 19933, 19943, 19993, 20003, 20103, 20203,
   20426, 20666, 20676, 20686, 20696, 20736, 20746, 21026, 21306, 21616,
   21626, 21676, 21686, 21696, 21706, 22176, 22186, 22196, 22206, 22226,
   22626, 22686, 22696, 22706, 22726, 22826, 25556, 25566, 25576, 25606,
   30106, 30699, 31569, 31579, 31589, 31599, 33029, 33039, 33049, 33089,
   33099, 33539, 33549, 33589, 33599, 34039, 34049, 34099, 34549, 34599,
   35049, 35459, 35469, 35499, 35959, 35969, 35979, 36369, 36379, 36389,
   36399, 36469, 36479, 36869, 36879, 36889, 36899, 36969, 36979, 36989,
   37379, 37389, 37399, 37479, 37489, 37879, 37889, 37899, 37979, 37989,
   37999, 38389, 38399, 38489, 38499, 38889, 38899, 38989, 38999, 39399,
   39499, 39899, 39999, 40299, 40852, 40962, 40972, 40982, 40992, 41002,
   41102, 41472, 41482, 41492, 41502, 42022, 42052, 42522, 42552, 43232,
   43252, 43742, 43942, 43952, 43992, 44002, 44242, 44442, 44452, 44502,
   44752, 44952, 45002, 45252, 45452, 45652, 51365, 51375, 51385, 51395,
   51405, 51505, 51915, 51925, 51945, 52825, 52885, 52895, 52905, 53335,
   53345, 53385, 53395, 53405, 54145, 54645, 56165, 56175, 56185, 56195,
   56205, 56765, 56775, 56785, 57275, 57285, 57775, 57785, 57795, 58285,
   58295, 58785, 58795, 58805, 59295, 59305, 59795, 59805, 60305, 60705,
   60805, 66058, 66068, 66078, 66088, 66098, 66568, 66578, 66588, 66598,
   67068, 67078, 67088, 67098, 67578, 67588, 67598, 68078, 68088, 68098,
   68588, 68598, 69088, 69098, 69598, 70098, 70908, 70918, 70928, 70938,
   70948, 70998, 76061, 76071, 76101, 76561, 76571, 76581, 81311, 81321,
   81331, 81341, 81351, 81401, 81704, 84034, 84044, 84094, 84104, 84544,
   84594, 84604, 85044, 85104, 85604, 86464, 86474, 86504, 86964, 86974,
   86984, 87374, 87384, 87394, 87404, 87474, 87484, 87874, 87884, 87894,
   87904, 87974, 87984, 87994, 88384, 88394, 88404, 88484, 88494, 88884,
   88894, 88904, 88984, 88994, 89004, 89394, 89404, 89494, 89504, 89894,
   89904, 89994, 90004, 90404, 90504, 90904, 91004, 91304, 91967, 91977,
   91987, 91997, 94237, 94747, 94947, 94997, 95247, 95447, 101607, 101617,
   101627, 101637, 101647, 101657, 102920, 102950, 103830, 103840, 103850,
   103890, 103900, 104340, 104350, 104390, 104400, 105150, 105650, 106160,
   106170, 106180, 106190, 106200, 106660, 106670, 106680, 106690, 106700,
   107170, 107180, 107190, 107200, 107770, 107780, 107790, 108280, 108290,
   108780, 108790, 108800, 109290, 109300, 109790, 109800, 110300, 110800,
   111810, 111820, 111830, 111840, 111850, 111860, 111870, 111880, 111890,
   111900, 117063, 117073, 117083, 117093, 117103, 117573, 117583, 117593,
   117603, 118073, 118083, 118093, 118103, 118583, 118593, 118603, 119083,
   119093, 119103, 119593, 119603, 120093, 120103, 120603, 121103, 121913,
   121923, 121933, 121943, 121953, 122003, 132116, 132126, 132136, 132146,
   132156, 132166, 132176, 132186, 132196, 132206, 135039, 135049, 135099,
   135549, 135599, 136049, 137469, 137479, 137969, 137979, 137989, 138379,
   138389, 138399, 138479, 138489, 138879, 138889, 138899, 138979, 138989,
   138999, 139389, 139399, 139489, 139499, 139889, 139899, 139989, 139999,
   140399, 140499, 140899, 140999, 146002, 152112, 152122, 152132, 152142,
   152152, 152202, 152612, 152622, 152632, 152642, 152652, 152662, 154835,
   154845, 154895, 155345, 155395, 156655, 156665, 156675, 156685, 156695,
   157165, 157175, 157185, 157195, 157665, 157675, 157685, 157695, 158175,
   158185, 158195, 158775, 158785, 158795, 159285, 159295, 159785, 159795,
   160295, 160795, 161805, 161815, 161825, 161835, 161845, 161855, 161865,
   161875, 161885, 161895, 162315, 162325, 162335, 162345, 162355, 162365,
   162375, 162385, 162395, 162405, 162815, 162825, 162835, 162845, 162855,
   162865, 162875, 162885, 162895, 162905, 168068, 168078, 168088, 168098,
   168578, 168588, 168598, 169078, 169088, 169098, 169588, 169598, 170088,
   170098, 170598, 171098, 172918, 172928, 172938, 172948, 172958, 173008,
   183121, 183131, 183141, 183151, 183161, 183171, 183181, 183191, 183201,
   186044, 188474, 188484, 188974, 188984, 188994, 189384, 189394, 189484,
   189494, 189884, 189894, 189984, 189994, 190394, 190494, 190894, 190994,
   202107, 202117, 202127, 202137, 202147, 202197, 202607, 202617, 202627,
   202637, 202647, 202657, 203117, 203127, 203137, 203147, 203157, 203207,
   203617, 203627, 203637, 203647, 203657, 203667, 205840, 205900, 206400,
   207160, 207170, 207180, 207190, 207200, 207660, 207670, 207680, 207690,
   207700, 208170, 208180, 208190, 208200, 208670, 208680, 208690, 208700,
   209180, 209190, 209200, 209780, 209790, 209800, 210290, 210300, 210790,
   210800, 211300, 211800, 212310, 212320, 212330, 212340, 212350, 212360,
   212370, 212380, 212390, 212400, 212810, 212820, 212830, 212840, 212850,
   212860, 212870, 212880, 212890, 212900, 213320, 213330, 213340, 213350,
   213360, 213370, 213380, 213390, 213400, 213820, 213830, 213840, 213850,
   213860, 213870, 213880, 213890, 213900, 219073, 219083, 219093, 219583,
   219593, 220083, 220093, 220593, 221093, 223923, 223933, 223943, 223953,
   223963, 234126, 234136, 234146, 234156, 234166, 234176, 234186, 234196,
   234206, 240389, 240399, 240889, 240899, 241399, 241899, 256845, 258165,
   258175, 258185, 258195, 258665, 258675, 258685, 258695, 259175, 259185,
   259195, 259675, 259685, 259695, 260185, 260195, 260785, 260795, 261295,
   261795, 262805, 262815, 262825, 262835, 262845, 262855, 262865, 262875,
   262885, 262895, 263315, 263325, 263335, 263345, 263355, 263365, 263375,
   263385, 263395, 263405, 263815, 263825, 263835, 263845, 263855, 263865,
   263875, 263885, 263895, 263905, 264325, 264335, 264345, 264355, 264365,
   264375, 264385, 264395, 264405, 264825, 264835, 264845, 264855, 264865,
   264875, 264885, 264895, 264905, 270078, 270088, 270098, 270588, 270598,
   271088, 271098, 271598, 272098, 274928, 274938, 274948, 274958, 274968,
   285131, 285141, 285151, 285161, 285171, 285181, 285191, 285201, 291394,
   291894, 309170, 309180, 309190, 309670, 309680, 309690, 310180, 310190,
   310680, 310690, 311190, 311790, 312800, 312810, 312820, 312830, 312840,
   312850, 312860, 312870, 312880, 312890, 313310, 313320, 313330, 313340,
   313350, 313360, 313370, 313380, 313390, 313400, 313810, 313820, 313830,
   313840, 313850, 313860, 313870, 313880, 313890, 313900, 314320, 314330,
   314340, 314350, 314360, 314370, 314380, 314390, 314400, 314820, 314830,
   314840, 314850, 314860, 314870, 314880, 314890, 314900, 315330, 315340,
   315350, 315360, 315370, 315380, 315390, 315400, 315830, 315840, 315850,
   315860, 315870, 315880, 315890, 315900, 321083, 321093, 321593, 322093,
   325933, 325943, 325953, 325963, 325973, 336136, 336146, 336156, 336166,
   336176, 336186, 336196, 360175, 360185, 360195, 360675, 360685, 360695,
   361185, 361195, 361685, 361695, 362195, 362795, 363305, 363315, 363325,
   363335, 363345, 363355, 363365, 363375, 363385, 363395, 363805, 363815,
   363825, 363835, 363845, 363855, 363865, 363875, 363885, 363895, 364315,
   364325, 364335, 364345, 364355, 364365, 364375, 364385, 364395, 364815,
   364825, 364835, 364845, 364855, 364865, 364875, 364885, 364895, 365325,
   365335, 365345, 365355, 365365, 365375, 365385, 365395, 365825, 365835,
   365845, 365855, 365865, 365875, 365885, 365895, 366335, 366345, 366355,
   366365, 366375, 366385, 366395, 366835, 366845, 366855, 366865, 366875,
   366885, 366895, 372088, 376938, 376948, 376958, 376968, 376978, 387141,
   387151, 387161, 387171, 387181, 387191, 387201, 411180, 411190, 411680,
   411690, 412190, 412690, 413800, 413810, 413820, 413830, 413840, 413850,
   413860, 413870, 413880, 413890, 414310, 414320, 414330, 414340, 414350,
   414360, 414370, 414380, 414390, 414400, 414810, 414820, 414830, 414840,
   414850, 414860, 414870, 414880, 414890, 414900, 415320, 415330, 415340,
   415350, 415360, 415370, 415380, 415390, 415400, 415820, 415830, 415840,
   415850, 415860, 415870, 415880, 415890, 415900, 416330, 416340, 416350,
   416360, 416370, 416380, 416390, 416400, 416830, 416840, 416850, 416860,
   416870, 416880, 416890, 416900, 417340, 417350, 417360, 417370, 417380,
   417390, 417400, 417840, 417850, 417860, 417870, 417880, 417890, 417900,
   438146, 438156, 438166, 438176, 438186, 438196, 438949, 438959, 438969,
   439459, 439469, 439859, 439869, 439879, 439889, 439959, 439969, 439979,
   440369, 440379, 440389, 440469, 440479, 440869, 440879, 440889, 440969,
   440979, 440989, 441379, 441389, 441879, 441889, 442389, 442889, 443999,
   444009, 444019, 444029, 444039, 444049, 444059, 444069, 444079, 444089,
   444509, 444519, 444529, 444539, 444549, 444559, 444569, 444579, 444589,
   444599, 445009, 445019, 445029, 445039, 445049, 445059, 445069, 445079,
   445089, 445099, 445519, 445529, 445539, 445549, 445559, 445569, 445579,
   445589, 445599, 446019, 446029, 446039, 446049, 446059, 446069, 446079,
   446089, 446099, 446529, 446539, 446549, 446559, 446569, 446579, 446589,
   446599, 447029, 447039, 447049, 447059, 447069, 447079, 447089, 447099,
   447539, 447549, 447559, 447569, 447579, 447589, 447599, 448039, 448049,
   448059, 448069, 448079, 448089, 448099, 448549, 448559, 448569, 448579,
   448589, 448599, 462185, 462685, 464805, 464815, 464825, 464835, 464845,
   464855, 464865, 464875, 464885, 464895, 465315, 465325, 465335, 465345,
   465355, 465365, 465375, 465385, 465395, 465815, 465825, 465835, 465845,
   465855, 465865, 465875, 465885, 465895, 466325, 466335, 466345, 466355,
   466365, 466375, 466385, 466395, 466825, 466835, 466845, 466855, 466865,
   466875, 466885, 466895, 467335, 467345, 467355, 467365, 467375, 467385,
   467395, 467835, 467845, 467855, 467865, 467875, 467885, 467895, 468345,
   468355, 468365, 468375, 468385, 468395, 468845, 468855, 468865, 468875,
   468885, 468895, 489151, 489161, 489171, 489181, 489191, 513190, 513690,
   515810, 515820, 515830, 515840, 515850, 515860, 515870, 515880, 515890,
   516320, 516330, 516340, 516350, 516360, 516370, 516380, 516390, 516820,
   516830, 516840, 516850, 516860, 516870, 516880, 516890, 517330, 517340,
   517350, 517360, 517370, 517380, 517390, 517830, 517840, 517850, 517860,
   517870, 517880, 517890, 518340, 518350, 518360, 518370, 518380, 518390,
   518840, 518850, 518860, 518870, 518880, 518890, 519350, 519360, 519370,
   519380, 519390, 519850, 519860, 519870, 519880, 519890, 540156, 540166,
   540176, 540186, 540196, 566815, 566825, 566835, 566845, 566855, 566865,
   566875, 566885, 566895, 567325, 567335, 567345, 567355, 567365, 567375,
   567385, 567395, 567825, 567835, 567845, 567855, 567865, 567875, 567885,
   567895, 568335, 568345, 568355, 568365, 568375, 568385, 568395, 568835,
   568845, 568855, 568865, 568875, 568885, 568895, 569345, 569355, 569365,
   569375, 569385, 569395, 569845, 569855, 569865, 569875, 569885, 569895,
   570355, 570365, 570375, 570385, 570395, 570855, 570865, 570875, 570885,
   570895, 591161, 591171, 591181, 591191, 617820, 617830, 617840, 617850,
   617860, 617870, 617880, 617890, 618330, 618340, 618350, 618360, 618370,
   618380, 618390, 618830, 618840, 618850, 618860, 618870, 618880, 618890,
   619340, 619350, 619360, 619370, 619380, 619390, 619840, 619850, 619860,
   619870, 619880, 619890, 620350, 620360, 620370, 620380, 620390, 620850,
   620860, 620870, 620880, 620890, 621360, 621370, 621380, 621390, 621860,
   621870, 621880, 621890, 642166, 642176, 642186, 668825, 668835, 668845,
   668855, 668865, 668875, 668885, 669335, 669345, 669355, 669365, 669375,
   669385, 669835, 669845, 669855, 669865, 669875, 669885, 670345, 670355,
   670365, 670375, 670385, 670845, 670855, 670865, 670875, 670885, 671355,
   671365, 671375, 671385, 671855, 671865, 671875, 671885, 672365, 672375,
   672385, 672865, 672875, 672885, 693171, 693181, 693191, 719830, 719840,
   719850, 719860, 719870, 719880, 719890, 720340, 720350, 720360, 720370,
   720380, 720390, 720840, 720850, 720860, 720870, 720880, 720890, 721350,
   721360, 721370, 721380, 721390, 721850, 721860, 721870, 721880, 721890,
   722360, 722370, 722380, 722390, 722860, 722870, 722880, 722890, 723370,
   723380, 723390, 723870, 723880, 723890, 744176, 744186, 770835, 770845,
   770855, 770865, 770875, 770885, 771345, 771355, 771365, 771375, 771385,
   771845, 771855, 771865, 771875, 771885, 772355, 772365, 772375, 772385,
   772855, 772865, 772875, 772885, 773365, 773375, 773385, 773865, 773875,
   773885, 774375, 774385, 774875, 774885, 795181, 821840, 821850, 821860,
   821870, 821880, 822350, 822360, 822370, 822380, 822850, 822860, 822870,
   822880, 823360, 823370, 823380, 823860, 823870, 823880, 824370, 824380,
   824870, 824880, 825380, 825880, 826383, 826393, 826403, 826413, 826423,
   826433, 826893, 826903, 826913, 826923, 826933, 826983, 827393, 827403,
   827413, 827423, 827433, 827443, 827903, 827913, 827923, 827933, 827943,
   828403, 828413, 828423, 828433, 828443, 828453, 828713, 828723, 828733,
   828743, 828753, 828763, 828773, 828783, 828913, 828923, 828933, 828943,
   828953, 829213, 829223, 829233, 829243, 829253, 829263, 829273, 829283,
   829413, 829423, 829433, 829443, 829453, 829463, 829723, 829733, 829743,
   829753, 829763, 829773, 829783, 829923, 829933, 829943, 829953, 829963,
   830223, 830233, 830243, 830253, 830263, 830273, 830283, 830423, 830433,
   830443, 830453, 830463, 830473, 830733, 830743, 830753, 830763, 830773,
   830783, 830933, 830943, 830953, 830963, 830973, 831233, 831243, 831253,
   831263, 831273, 831283, 831433, 831443, 831453, 831463, 831473, 831483,
   831743, 831753, 831763, 831773, 831783, 832243, 832253, 832263, 832273,
   832283, 832753, 832763, 832773, 832783, 833253, 833263, 833273, 833283,
   833763, 833773, 833783, 834263, 834273, 834283, 834773, 834783, 835273,
   835283, 835783, 835983, 836283, 872845, 872855, 872865, 872875, 872885,
   873355, 873365, 873375, 873385, 873855, 873865, 873875, 873885, 874365,
   874375, 874385, 874865, 874875, 874885, 875375, 875385, 875875, 875885,
   876385, 876885, 877388, 877398, 877408, 877418, 877428, 877438, 877898,
   877908, 877918, 877928, 877938, 878398, 878408, 878418, 878428, 878438,
   878448, 878908, 878918, 878928, 878938, 878948, 879408, 879418, 879428,
   879438, 879448, 879458, 879718, 879728, 879738, 879748, 879758, 879768,
   879778, 879918, 879928, 879938, 879948, 879958, 880218, 880228, 880238,
   880248, 880258, 880268, 880278, 880418, 880428, 880438, 880448, 880458,
   880468, 880728, 880738, 880748, 880758, 880768, 880778, 880928, 880938,
   880948, 880958, 880968, 881228, 881238, 881248, 881258, 881268, 881278,
   881428, 881438, 881448, 881458, 881468, 881478, 881738, 881748, 881758,
   881768, 881778, 881938, 881948, 881958, 881968, 881978, 882238, 882248,
   882258, 882268, 882278, 882438, 882448, 882458, 882468, 882478, 882748,
   882758, 882768, 882778, 883248, 883258, 883268, 883278, 883758, 883768,
   883778, 884258, 884268, 884278, 884768, 884778, 885268, 885278, 885778,
   886278, 923850, 923860, 923870, 923880, 924360, 924370, 924380, 924860,
   924870, 924880, 925370, 925380, 925870, 925880, 926380, 926880, 928393,
   928403, 928413, 928423, 928433, 928443, 928903, 928913, 928923, 928933,
   928943, 929403, 929413, 929423, 929433, 929443, 929453, 929913, 929923,
   929933, 929943, 929953, 930413, 930423, 930433, 930443, 930453, 930463,
   930723, 930733, 930743, 930753, 930763, 930773, 930783, 930923, 930933,
   930943, 930953, 930963, 931223, 931233, 931243, 931253, 931263, 931273,
   931283, 931423, 931433, 931443, 931453, 931463, 931473, 931733, 931743,
   931753, 931763, 931773, 931783, 931933, 931943, 931953, 931963, 931973,
   932233, 932243, 932253, 932263, 932273, 932283, 932433, 932443, 932453,
   932463, 932473, 932483, 932743, 932753, 932763, 932773, 932783, 932943,
   932953, 932963, 932973, 932983, 933243, 933253, 933263, 933273, 933283,
   933443, 933453, 933463, 933473, 933483, 933753, 933763, 933773, 933783,
   934253, 934263, 934273, 934283, 934763, 934773, 934783, 935263, 935273,
   935283, 935773, 935783, 936273, 936283, 936783, 937283, 937993, 938003,
   938013, 938023, 938033, 938043, 938053, 938063, 938073, 938083, 974855,
   974865, 974875, 975365, 975375, 975865, 975875, 976375, 976875,
   1025860, 1025870, 1025880, 1026370, 1026380, 1026870, 1026880, 1027380,
   1027880}

\* the same for technical * 101 + other under lines 279 and 282
ShortOfTwo ==
  {607, 1214, 2428, 3132, 3637, 4142, 4647, 4851, 4856, 5152, 5759, 5764,
   6264, 6269, 6769, 6774, 7274, 7279, 7779, 7784, 8284, 8289, 8789, 8794,
   9294, 9299, 9697, 9702, 9707, 9712, 9799, 9804}

\* the sizes (base * 101 + confidence) * 101 + factor (in percent) that lie
\* halfway between two tenths and that round(adjusted_size, 1) rounds up; the
\* other halfway sizes are rounded down
HalfUp ==
  {104605, 109165, 72012, 73022, 74032, 77062, 80092, 81592, 31208, 33228,
   35248, 36258, 37268}

\* (the technical layer always weighted 0.4)
FlatWeights(technical_score, macro_score, sentiment_score) ==
  IF macro_score # NoneNum /\ sentiment_score # NoneNum
  THEN (4 * technical_score + 3 * macro_score + 3 * sentiment_score) \div 10
  ELSE IF macro_score # NoneNum
  THEN (4 * technical_score + 6 * macro_score) \div 10
  ELSE IF sentiment_score # NoneNum
  THEN (4 * technical_score + 6 * sentiment_score) \div 10
  ELSE technical_score

\* SignalGenerator._calculate_overall_score
_calculate_overall_score(technical_score, macro_score, sentiment_score) ==
  IF macro_score # NoneNum /\ sentiment_score # NoneNum
  THEN (4 * technical_score + 3 * macro_score + 3 * sentiment_score) \div 10
       - (IF (technical_score * 101 + macro_score) * 101 + sentiment_score
               \in ShortOfThree THEN 1 ELSE 0)
  ELSE IF macro_score # NoneNum
  THEN (6 * technical_score + 4 * macro_score) \div 10
       - (IF technical_score * 101 + macro_score \in ShortOfTwo
          THEN 1 ELSE 0)
  ELSE IF sentiment_score # NoneNum
  THEN (6 * technical_score + 4 * sentiment_score) \div 10
       - (IF technical_score * 101 + sentiment_score \in ShortOfTwo
          THEN 1 ELSE 0)
  ELSE technical_score

\* (breakpoints that belong to the class below them)
ScoreAbove(score) ==
  IF score > 80 THEN "STRONG_BUY"
  ELSE IF score > 65 THEN "BUY"
  ELSE IF score > 55 THEN "WEAK_BUY"
  ELSE IF score > 45 THEN "HOLD"
  ELSE IF score > 35 THEN "WEAK_SELL"
  ELSE IF score > 20 THEN "SELL"
  ELSE "STRONG_SELL"

\* SignalGenerator._score_to_signal_type
_score_to_signal_type(score) ==
  IF score >= 80 THEN "STRONG_BUY"
  ELSE IF score >= 65 THEN "BUY"
  ELSE IF score >= 55 THEN "WEAK_BUY"
  ELSE IF score >= 45 THEN "HOLD"
  ELSE IF score >= 35 THEN "WEAK_SELL"
  ELSE IF score >= 20 THEN "SELL"
  ELSE "STRONG_SELL"

\* SignalGenerator._calculate_confidence; with n scores of sum S and sum of
\* squares Q the variance is (n * Q - S * S) / (n * n)
_calculate_confidence(technical_score, macro_score, sentiment_score, ai_analysis) ==
  LET confidence == IF ai_analysis.present THEN ai_analysis.confidence ELSE 50
      scores == SelectSeq(<<technical_score, macro_score, sentiment_score>>,
                          LAMBDA s : s # NoneNum)
      n == Len(scores)
      S == IF n = 3 THEN scores[1] + scores[2] + scores[3]
           ELSE IF n = 2 THEN scores[1] + scores[2] ELSE scores[1]
      Q == IF n = 3
           THEN scores[1] * scores[1] + scores[2] * scores[2]
                + scores[3] * scores[3]
           ELSE IF n = 2 THEN scores[1] * scores[1] + scores[2] * scores[2]
           ELSE scores[1] * scores[1]
  IN IF n >= 2 /\ n * Q - S * S < 100 * n * n
     THEN Min(100, confidence + 10)
     ELSE IF n >= 2 /\ n * Q - S * S > 400 * n * n
     THEN Max(0, confidence - 15)
     ELSE confidence

\* (the price itself, whatever the factor)
Whole(price, percent) == price

\* current_price * 1.1 and the like: `percent` hundredths of the price
Times(price, percent) == (price * percent) \div 100

\* f"{x:,.0f}": whole dollars, a half going to the even dollar
Dollars(cents) ==
  LET q == cents \div 100
      r == cents % 100
  IN IF r > 50 \/ (r = 50 /\ q % 2 = 1) THEN q + 1 ELSE q

\* MultiLayerSignal.entry_zone: None, a text, "$low-$high" or
\* "Current price ($p)"
Zone(kind, low, high) == [kind |-> kind, low |-> low, high |-> high]

\* SignalGenerator._determine_trade_levels: action_map
action_map ==
  [STRONG_BUY |-> "Enter Long Position (High Conviction)",
   BUY |-> "Enter Long Position",
   WEAK_BUY |-> "Scale In (Small Position)",
   HOLD |-> "Wait / Hold Current Positions",
   WEAK_SELL |-> "Consider Taking Profits",
   SELL |-> "Exit Long Positions",
   STRONG_SELL |-> "Exit All Positions (Urgent)"]

\* SignalGenerator._determine_trade_levels; `raised`: formatting the None of
\* a missing entry_zone_high raises TypeError
_determine_trade_levels(signal_type, price_data, technical, ai_analysis) ==
  LET current_price == price_data.price
  IN IF ai_analysis.present /\ Truthy(ai_analysis.entry_zone_low)
     THEN [raised |-> ai_analysis.entry_zone_high = NoneNum,
           action |-> action_map[signal_type],
           entry_zone |->
             Zone("range", Dollars(ai_analysis.entry_zone_low),
                  IF ai_analysis.entry_zone_high = NoneNum THEN NoneNum
                  ELSE Dollars(ai_analysis.entry_zone_high)),
           targets |->
             <<IF Truthy(ai_analysis.target_conservative)
               THEN ai_analysis.target_conservative
               ELSE Times(current_price, 110),
               IF Truthy(ai_analysis.target_aggressive)
               THEN ai_analysis.target_aggressive
               ELSE Times(current_price, 120)>>,
           stop_loss |->
             IF Truthy(ai_analysis.stop_loss) THEN ai_analysis.stop_loss
             ELSE Times(current_price, 90)]
     ELSE IF signal_type \in {"STRONG_BUY", "BUY"}
     THEN [raised |-> FALSE,
           action |-> action_map[signal_type],
           entry_zone |->
             Zone("range", Dollars(Times(current_price, 98)),
                  Dollars(Times(current_price, 102))),
           targets |->
             <<Times(current_price, 110), Times(current_price, 120),
               Times(current_price, 130)>>,
           stop_loss |->
             IF Truthy(technical.bb_lower) THEN technical.bb_lower
             ELSE Times(current_price, 92)]
     ELSE IF signal_type \in {"WEAK_SELL", "SELL", "STRONG_SELL"}
     THEN [raised |-> FALSE,
           action |-> action_map[signal_type],
           entry_zone |->
             Zone("Current price", Dollars(current_price), NoneNum),
           targets |-> <<>>,
           stop_loss |-> NoneNum]
     ELSE [raised |-> FALSE,
           action |-> action_map[signal_type],
           entry_zone |-> Zone("Wait for better setup", NoneNum, NoneNum),
           targets |-> <<>>,
           stop_loss |-> NoneNum]

\* SignalGenerator._recommend_position_size: base_size_map
base_size_map ==
  [STRONG_BUY |-> 10, BUY |-> 7, WEAK_BUY |-> 3, HOLD |-> 0,
   WEAK_SELL |-> 0, SELL |-> 0, STRONG_SELL |-> 0]

\* (a size that leaves the day's price change aside)
CalmSize(signal_type, confidence, price_data) ==
  (base_size_map[signal_type] * confidence + 5) \div 10

\* SignalGenerator._recommend_position_size, in tenths of a percent
_recommend_position_size(signal_type, confidence, price_data) ==
  LET base_size == base_size_map[signal_type]
      volatility == IF price_data.change_24h < 0
                    THEN -price_data.change_24h ELSE price_data.change_24h
      factor == IF volatility > 10 THEN 70
                ELSE IF volatility > 5 THEN 85 ELSE 100
      adjusted_size == base_size * confidence * factor
      q == adjusted_size \div 1000
      r == adjusted_size % 1000
  IN IF 2 * r > 1000
        \/ (2 * r = 1000
            /\ (base_size * 101 + confidence) * 101 + factor \in HalfUp)
     THEN q + 1 ELSE q

\* the MultiLayerSignal of generate_signal's `except Exception` (lines 125-133)
DefaultSignal ==
  [signal |-> "HOLD", overall_score |-> 50, confidence |-> 0,
   technical_score |-> 50, macro_score |-> NoneNum,
   sentiment_score |-> NoneNum, action |-> "Wait for better setup",
   entry_zone |-> Zone("None", NoneNum, NoneNum), targets |-> <<>>,
   stop_loss |-> NoneNum, position_size_pct |-> NoneNum,
   timeframe |-> "N/A"]

\* a step of generate_signal's try block raises
Raises(price_data, technical, ai_analysis, macro) ==
  LET technical_score == _calculate_technical_score(technical)
      macro_score ==
        IF macro.present THEN _calculate_macro_score(macro) ELSE NoneNum
      sentiment_score ==
        IF ai_analysis.present THEN _map_ai_to_score(ai_analysis) ELSE NoneNum
      signal_type ==
        _score_to_signal_type(
          _calculate_overall_score(technical_score, macro_score,
                                   sentiment_score))
  IN _determine_trade_levels(signal_type, price_data, technical,
                             ai_analysis).raised

\* SignalGenerator.generate_signal
generate_signal(price_data, technical, ai_analysis, macro) ==
  LET technical_score == _calculate_technical_score(technical)
      macro_score ==
        IF macro.present THEN _calculate_macro_score(macro) ELSE NoneNum
      sentiment_score ==
        IF ai_analysis.present THEN _map_ai_to_score(ai_analysis) ELSE NoneNum
      overall_score ==
        _calculate_overall_score(technical_score, macro_score,
                                 sentiment_score)
      signal_type == _score_to_signal_type(overall_score)
      confidence ==
        _calculate_confidence(technical_score, macro_score, sentiment_score,
                              ai_analysis)
      levels ==
        _determine_trade_levels(signal_type, price_data, technical,
                                ai_analysis)
  IN IF levels.raised
     THEN DefaultSignal
     ELSE [signal |-> signal_type, overall_score |-> overall_score,
           confidence |-> confidence, technical_score |-> technical_score,
           macro_score |-> macro_score, sentiment_score |-> sentiment_score,
           action |-> levels.action, entry_zone |-> levels.entry_zone,
           targets |-> levels.targets, stop_loss |-> levels.stop_loss,
           position_size_pct |->
             _recommend_position_size(signal_type, confidence, price_data),
           timeframe |->
             IF ai_analysis.present THEN ai_analysis.timeframe
             ELSE "7-14 days"]

(***************************************************************************)
(* The arguments generate_signal is called with.                           *)
(***************************************************************************)
Technical(rsi, macd_histogram, bands, emas, volume_ratio) ==
  [rsi |-> rsi, macd_histogram |-> macd_histogram,
   bb_upper |-> bands[3], bb_middle |-> bands[2], bb_lower |-> bands[1],
   ema_20 |-> emas[1], ema_50 |-> emas[2], ema_200 |-> emas[3],
   volume_ratio |-> volume_ratio]

\* lower, middle and upper band
BandChoices == {<<9000, 10000, 11000>>}

\* ema_20, ema_50, ema_200: rising and below the middle band, falling and
\* above it, the long one unavailable
EmaChoices ==
  {<<9800, 9700, 9600>>, <<10100, 10200, 10300>>, <<9800, 9700, NoneNum>>}

TechChoices ==
  {Technical(r, h, b, e, v) :
     r \in {25, 50, 75}, h \in {-1, 1}, b \in BandChoices, e \in EmaChoices,
     v \in {NoneNum, 16}}

AIAnalysis(rating, confidence, levels) ==
  [present |-> TRUE, rating |-> rating, confidence |-> confidence,
   timeframe |-> "SWING", entry_zone_low |-> levels[1],
   entry_zone_high |-> levels[2], target_conservative |-> levels[3],
   target_aggressive |-> levels[4], stop_loss |-> levels[5]]

\* `ai_analysis=None`
NoAI ==
  [present |-> FALSE, rating |-> "HOLD", confidence |-> 0,
   timeframe |-> "SWING", entry_zone_low |-> NoneNum,
   entry_zone_high |-> NoneNum, target_conservative |-> NoneNum,
   target_aggressive |-> NoneNum, stop_loss |-> NoneNum]

\* entry low and high, the two targets and the stop: none of them, all of
\* them, a low without a high, everything but a low
LevelChoices ==
  {<<NoneNum, NoneNum, NoneNum, NoneNum, NoneNum>>,
   <<9500, 10500, 11500, 12500, 9000>>,
   <<9500, NoneNum, 11500, NoneNum, NoneNum>>,
   <<NoneNum, 10500, 11500, 12500, 9000>>}

AIChoices ==
  {NoAI} \cup
  {AIAnalysis(r, c, l) :
     r \in SignalTypes, c \in {0, 60, 100}, l \in LevelChoices}

MacroContext(dxy, vix, fear_greed_index) ==
  [present |-> TRUE, dxy |-> dxy, vix |-> vix,
   fear_greed_index |-> fear_greed_index]

\* `macro=None`
NoMacro ==
  [present |-> FALSE, dxy |-> NoneNum, vix |-> NoneNum,
   fear_greed_index |-> NoneNum]

MacroChoices == {NoMacro, MacroContext(90, 12, 10), MacroContext(115, 35, 90)}

CoinPrice(price, change_24h) == [price |-> price, change_24h |-> change_24h]

PriceChoices == {CoinPrice(p, c) : p \in {10000, 12500}, c \in {0, -11}}

\* a call of generate_signal that has not run yet, and one that has
Pending(price_data, technical, ai_analysis, macro) ==
  [called |-> FALSE, price_data |-> price_data, technical |-> technical,
   ai_analysis |-> ai_analysis, macro |-> macro, raised |-> FALSE,
   signal |-> DefaultSignal]

InitFusion ==
  fusion =
    Pending(CoinPrice(10000, 0),
            Technical(50, 1, <<9000, 10000, 11000>>,
                      <<9800, 9700, NoneNum>>, NoneNum),
            NoAI, NoMacro)

\* generate_signal runs on its arguments
GenerateSignal ==
  /\ ~fusion.called
  /\ fusion' =
       [fusion EXCEPT
          !.called = TRUE,
          !.raised = Raises(fusion.price_data, fusion.technical,
                            fusion.ai_analysis, fusion.macro),
          !.signal = generate_signal(fusion.price_data, fusion.technical,
                                     fusion.ai_analysis, fusion.macro)]
  /\ UNCHANGED <<rlVars, cacheVars, run>>

InitLimiter ==
  /\ now = 0
  /\ limiters = [s \in Sources |-> NewBucket(s)]
  /\ stats = [s \in Sources |-> NewStats]
  /\ task = [t \in Tasks |-> IdleTask]
  /\ request_queues = [s \in Sources |-> NewQueue]
  /\ calls = 0
  /\ added = [s \in Sources |-> 0]
  /\ spent = [s \in Sources |-> 0]
  /\ result = [t \in Tasks |-> NoResult]

(***************************************************************************)
(* get_coin_analysis (main.py): one request per task.  A step runs from    *)
(* one await to the next: the cache read, the two rate-gated Binance       *)
(* fetches, the sentiment provider, the cache write.  The Binance bucket   *)
(* holds 1100 tokens, so the acquires of the requests modelled here return *)
(* without a wait.                                                         *)
(***************************************************************************)
\* settings.coins_list (one tracked coin) and a symbol that is not in it
TrackedCoins == {"BTC"}

Symbols == TrackedCoins \cup {"DOGE"}

\* the bars get_klines(limit=200) may return
BarChoices == {10, 50, 200}

\* analyze_candles: `if len(ohlcv_data) < 50`
MinCandles == 50

\* TechnicalIndicators.calculate_ema: None on fewer prices than the period
calculate_ema(bars, period, value) == IF bars < period THEN NoneNum ELSE value

\* the fewest prices (volumes) for which calculate_rsi (period + 1),
\* calculate_macd (slow + signal), calculate_bollinger_bands (period) and
\* calculate_volume_ratio (period + 1) compute a value
MinHistory ==
  [calculate_rsi |-> 15, calculate_macd |-> 35,
   calculate_bollinger_bands |-> 20, calculate_volume_ratio |-> 21]

\* one of these indicators on a series of `bars` bars: None when the series
\* is too short, else the value the series comes to
Calculated(fn, bars, value) ==
  IF bars < MinHistory[fn] THEN NoneNum ELSE value

\* the {} of analyze_candles
EmptyAnalysis ==
  [empty |-> TRUE, rsi |-> NoneNum, macd_histogram |-> 0,
   bb_upper |-> NoneNum, bb_middle |-> NoneNum, bb_lower |-> NoneNum,
   ema_20 |-> NoneNum, ema_50 |-> NoneNum, ema_200 |-> NoneNum,
   volume_ratio |-> NoneNum]

\* TechnicalIndicators.analyze_candles on a series of `bars` bars whose
\* indicators, where the history allows them, come to `data`; RSI, MACD,
\* the bands and the volume ratio need fewer than MinCandles bars
analyze_candles(bars, data) ==
  IF bars < MinCandles
  THEN EmptyAnalysis
  ELSE [empty |-> FALSE, rsi |-> data.rsi,
        macd_histogram |-> data.macd_histogram,
        bb_upper |-> data.bb_upper, bb_middle |-> data.bb_middle,
        bb_lower |-> data.bb_lower,
        ema_20 |-> calculate_ema(bars, 20, data.ema_20),
        ema_50 |-> calculate_ema(bars, 50, data.ema_50),
        ema_200 |-> calculate_ema(bars, 200, data.ema_200),
        volume_ratio |-> data.volume_ratio]

\* main.py, lines 130-143: tech_analysis["rsi"] on {} raises KeyError, a
\* None in a required field of the TechnicalIndicators model raises
\* ValidationError
TechModelRaises(tech_analysis) ==
  \/ tech_analysis.empty
  \/ tech_analysis.rsi = NoneNum
  \/ tech_analysis.bb_upper = NoneNum
  \/ tech_analysis.bb_middle = NoneNum
  \/ tech_analysis.bb_lower = NoneNum

\* TechModel(rsi=tech_analysis["rsi"], ...)
TechModel(tech_analysis) ==
  [rsi |-> tech_analysis.rsi,
   macd_histogram |-> tech_analysis.macd_histogram,
   bb_upper |-> tech_analysis.bb_upper,
   bb_middle |-> tech_analysis.bb_middle,
   bb_lower |-> tech_analysis.bb_lower, ema_20 |-> tech_analysis.ema_20,
   ema_50 |-> tech_analysis.ema_50, ema_200 |-> tech_analysis.ema_200,
   volume_ratio |-> tech_analysis.volume_ratio]

\* analyze_candles, lines 243-296: the classes of trend, RSI, MACD and bands
\* that go into the bundle, for the indicator values and the last close
\* (current_price) of `data`; the band width (upper - lower) / middle * 100
\* is compared with 10 on whole numbers, the middle band being positive
Interpret(data) ==
  [trend |->
     IF Truthy(data.ema_20) /\ Truthy(data.ema_50) /\ Truthy(data.ema_200)
     THEN IF data.current_price > data.ema_200
          THEN IF data.ema_20 > data.ema_50 /\ data.ema_50 > data.ema_200
               THEN "STRONG_UPTREND" ELSE "UPTREND"
          ELSE IF data.current_price < data.ema_200
          THEN IF data.ema_20 < data.ema_50 /\ data.ema_50 < data.ema_200
               THEN "STRONG_DOWNTREND" ELSE "DOWNTREND"
          ELSE "SIDEWAYS"
     ELSE "UNKNOWN",
   rsi_signal |->
     IF ~Truthy(data.rsi) THEN "NEUTRAL"
     ELSE IF data.rsi < 30 THEN "OVERSOLD"
     ELSE IF data.rsi > 70 THEN "OVERBOUGHT"
     ELSE IF data.rsi < 40 THEN "BEARISH"
     ELSE IF data.rsi > 60 THEN "BULLISH"
     ELSE "NEUTRAL",
   macd_signal |->
     IF data.macd = NoneNum THEN "NEUTRAL"
     ELSE IF data.macd_histogram > 0
     THEN IF data.macd > data.macd_signal_line THEN "BULLISH" ELSE "NEUTRAL"
     ELSE IF data.macd < data.macd_signal_line THEN "BEARISH" ELSE "NEUTRAL",
   bb_signal |->
     IF data.bb_upper = NoneNum THEN "NEUTRAL"
     ELSE IF data.current_price < data.bb_lower THEN "OVERSOLD"
     ELSE IF data.current_price > data.bb_upper THEN "OVERBOUGHT"
     ELSE IF (data.bb_upper - data.bb_lower) * 100 < 10 * data.bb_middle
     THEN "SQUEEZE"
     ELSE "NEUTRAL"]

\* what the indicators of the fetched series come to
PipeTech ==
  {Technical(25, 1, <<9000, 10000, 11000>>, <<9800, 9700, 9600>>, 16),
   Technical(75, -1, <<9000, 10000, 11000>>, <<10100, 10200, 10300>>, 16)}

\* what ClaudeAnalyzer.analyze_coin returns to get_coin_analysis.  The prompt
\* it builds first formats technical.ema_20 with the format specification
\* ",.2f if technical.ema_20 else 'N/A'" (and change_7d, which the ticker
\* never fills, with "+.2f"): the f-string raises for every argument, the
\* except branch catches it, and the analysis is the HOLD of an error.
PipeAI ==
  {AIAnalysis("HOLD", 0, <<NoneNum, NoneNum, NoneNum, NoneNum, NoneNum>>)}

\* CacheManager._make_signal_key
_make_signal_key(symbol) == <<"signal", symbol>>

\* the `result` dict of request r: price_data and the signal hold datetimes
Result(r) == Doc("result", r, "stamped")

NewRun ==
  [pc |-> "idle", symbol |-> "", hit |-> FALSE, acquires |-> 0,
   ticker |-> FALSE, klines |-> FALSE, bars |-> 0,
   technical |-> TechModel(EmptyAnalysis), fused |-> FALSE,
   signal |-> DefaultSignal, stored |-> FALSE, status |-> 0, body |-> None]

\* the response of a request: an HTTP status and, for 200, the body
Respond(rec, status, body) ==
  [rec EXCEPT !.pc = "done", !.status = status, !.body = body]

InitPipeline == run = [r \in Tasks |-> NewRun]

\* lines 107-110: a symbol that is not tracked is answered 404
Request(r, symbol) ==
  /\ started
  /\ run[r].pc = "idle"
  /\ run' = [run EXCEPT ![r] =
       IF symbol \in TrackedCoins
       THEN [@ EXCEPT !.pc = "check", !.symbol = symbol]
       ELSE Respond([@ EXCEPT !.symbol = symbol], 404, None)]
  /\ UNCHANGED <<rlVars, cacheVars, fusion>>

\* (a read that joins a request already under way instead of missing)
CheckCacheJoined(r) ==
  /\ run[r].pc = "check"
  /\ Get(_make_signal_key(run[r].symbol))
  /\ run' = [run EXCEPT ![r] =
       IF \/ last_op'.ret # None
          \/ \E o \in Tasks \ {r} : run[o].pc \notin {"idle", "check", "done"}
       THEN Respond([@ EXCEPT !.hit = TRUE], 200, last_op'.ret)
       ELSE [@ EXCEPT !.pc = "ticker"]]

\* (a hit that is fetched again all the same)
CheckCacheRefetch(r) ==
  /\ run[r].pc = "check"
  /\ Get(_make_signal_key(run[r].symbol))
  /\ run' = [run EXCEPT ![r] =
       IF last_op'.ret # None
       THEN [@ EXCEPT !.pc = "ticker", !.hit = TRUE]
       ELSE [@ EXCEPT !.pc = "ticker"]]

\* lines 113-117: get_signal; a hit is returned
CheckCache(r) ==
  /\ run[r].pc = "check"
  /\ Get(_make_signal_key(run[r].symbol))
  /\ run' = [run EXCEPT ![r] =
       IF last_op'.ret # None
       THEN Respond([@ EXCEPT !.hit = TRUE], 200, last_op'.ret)
       ELSE [@ EXCEPT !.pc = "ticker"]]

\* BinanceClient.get_ticker_24h, line 85: the acquire
TickerGate(r) ==
  /\ run[r].pc = "ticker"
  /\ Call(r, "binance", "high", 1)
  /\ run' = [run EXCEPT ![r] =
       [@ EXCEPT !.pc = "ticker_fetch", !.acquires = @ + 1]]

\* BinanceClient.get_ticker_24h, lines 87-102: the request; its
\* BinanceAPIException reaches get_coin_analysis' `except Exception`
TickerFetch(r, ok) ==
  /\ run[r].pc = "ticker_fetch"
  /\ task[r].pc = "idle"
  /\ run' = [run EXCEPT ![r] =
       IF ok THEN [@ EXCEPT !.pc = "klines", !.ticker = TRUE]
       ELSE Respond(@, 500, None)]
  /\ UNCHANGED <<rlVars, cacheVars, fusion>>

\* BinanceClient.get_klines, line 123: the acquire
KlinesGate(r) ==
  /\ run[r].pc = "klines"
  /\ Call(r, "binance", "medium", 1)
  /\ run' = [run EXCEPT ![r] =
       [@ EXCEPT !.pc = "klines_fetch", !.acquires = @ + 1]]

\* BinanceClient.get_klines, lines 125-151, then main.py, lines 127-147:
\* analyze_candles and the TechnicalIndicators model
KlinesFetch(r, ok, bars, data) ==
  /\ run[r].pc = "klines_fetch"
  /\ task[r].pc = "idle"
  /\ run' = [run EXCEPT ![r] =
       IF ~ok THEN Respond(@, 500, None)
       ELSE IF TechModelRaises(analyze_candles(bars, data))
       THEN Respond([@ EXCEPT !.klines = TRUE, !.bars = bars], 500, None)
       ELSE [@ EXCEPT !.pc = "ai", !.klines = TRUE, !.bars = bars,
                      !.technical = TechModel(analyze_candles(bars, data))]]
  /\ UNCHANGED <<rlVars, cacheVars, fusion>>

\* lines 150-172: analyze_coin has returned; generate_signal and the result
Fuse(r, ai_analysis) ==
  /\ run[r].pc = "ai"
  /\ run' = [run EXCEPT ![r] =
       [@ EXCEPT !.pc = "store", !.fused = TRUE,
                 !.signal = generate_signal(CoinPrice(10000, 0), run[r].technical,
                                            ai_analysis, NoMacro)]]
  /\ UNCHANGED <<rlVars, cacheVars, fusion>>

\* lines 175-177: set_signal, then the result is returned
Store(r) ==
  /\ run[r].pc = "store"
  /\ Set(_make_signal_key(run[r].symbol), Result(r), TTL_TECHNICAL)
  /\ run' = [run EXCEPT ![r] =
       Respond([@ EXCEPT !.stored = (last_op'.fault = "none")], 200,
               Result(r))]

\* requests served at a time
MaxRuns == 2

NextPipeline ==
  \/ Connect /\ UNCHANGED run
  \/ \E r \in 1 .. MaxRuns, symbol \in Symbols : Request(r, symbol)
  \/ \E r \in Tasks : CheckCache(r)
  \/ \E r \in Tasks : TickerGate(r)
  \/ \E r \in Tasks, ok \in BOOLEAN : TickerFetch(r, ok)
  \/ \E r \in Tasks : KlinesGate(r)
  \/ \E r \in Tasks, ok \in BOOLEAN, bars \in BarChoices, data \in PipeTech :
        KlinesFetch(r, ok, bars, data)
  \/ \E r \in Tasks, ai_analysis \in PipeAI : Fuse(r, ai_analysis)
  \/ \E r \in Tasks : Store(r)
  \/ CacheTick /\ UNCHANGED run

Init == InitLimiter /\ InitCache /\ InitFusion /\ InitPipeline

\* the priorities the callers of one run pass
PriorityChoices == {"critical", "low"}

\* the tasks are alike: the one that calls next is the first idle one
NextCaller(t) == \A o \in Tasks : o < t => task[o].pc # "idle"

Next ==
  \/ /\ calls < MaxCalls
     /\ \E t \in Tasks, s \in Sources \cup {UnknownSource},
            priority \in PriorityChoices :
           \E u \in UnitChoices(s) :
              NextCaller(t) /\ Call(t, s, priority, u) /\ UNCHANGED run
  \/ \E t \in Tasks : GetLock(t) /\ UNCHANGED run
  \/ \E t \in Tasks : Wake(t) /\ UNCHANGED run
  \/ \E d \in Gaps : Advance(d) /\ UNCHANGED run
  \/ AdvanceToWake /\ UNCHANGED run

Spec == Init /\ [][Next]_vars

(***************************************************************************)
(* The same limiter under the scheduling the event loop gives: a coroutine *)
(* that can run does run (the first waiter takes a released lock, a sleep  *)
(* that is over returns), and time advances.                               *)
(***************************************************************************)
LiveCalls == 2

NextLive ==
  \/ /\ calls < LiveCalls
     /\ \E t \in Tasks, s \in Sources \cup {UnknownSource},
            priority \in PriorityChoices :
           \E u \in UnitChoices(s) :
              NextCaller(t) /\ Call(t, s, priority, u) /\ UNCHANGED run
  \/ \E t \in Tasks : GetLock(t) /\ UNCHANGED run
  \/ \E t \in Tasks : Wake(t) /\ UNCHANGED run
  \/ \E d \in Gaps : Advance(d) /\ UNCHANGED run
  \/ AdvanceToWake /\ UNCHANGED run

SpecLive ==
  /\ Init
  /\ [][NextLive]_vars
  /\ \A t \in Tasks : /\ WF_vars(GetLock(t) /\ UNCHANGED run)
                       /\ WF_vars(Wake(t) /\ UNCHANGED run)
  /\ WF_vars(AdvanceToWake /\ UNCHANGED run)

(***************************************************************************)
(* The limiter with its statistics reset at any moment, also while tasks   *)
(* are inside acquire.                                                     *)
(***************************************************************************)
\* (a reset that zeroes the request count alone)
ResetTotal(source) ==
  /\ stats' = [s \in Sources |->
       IF source = "None" \/ source = s
       THEN [stats[s] EXCEPT !.total_requests = 0] ELSE stats[s]]
  /\ UNCHANGED <<now, limiters, task, calls, added, spent, result,
               request_queues>>
  /\ UNCHANGED notLimiter

\* RateLimiter.reset_stats: the counters of one source, or of every source
\* (source = "None"), go back to zero; an unknown source changes nothing
reset_stats(source) ==
  /\ stats' = [s \in Sources |->
       IF source = "None" \/ source = s THEN NewStats ELSE stats[s]]
  /\ UNCHANGED <<now, limiters, task, calls, added, spent, result,
               request_queues>>
  /\ UNCHANGED notLimiter

NextStats ==
  \/ /\ calls < LiveCalls
     /\ \E t \in Tasks, s \in Sources \cup {UnknownSource},
            priority \in PriorityChoices :
           \E u \in UnitChoices(s) :
              NextCaller(t) /\ Call(t, s, priority, u) /\ UNCHANGED run
  \/ \E t \in Tasks : GetLock(t) /\ UNCHANGED run
  \/ \E t \in Tasks : Wake(t) /\ UNCHANGED run
  \/ \E d \in Gaps : Advance(d) /\ UNCHANGED run
  \/ AdvanceToWake /\ UNCHANGED run
  \/ \E source \in Sources \cup {UnknownSource, "None"} :
        reset_stats(source) /\ UNCHANGED run

SpecStats == Init /\ [][NextStats]_vars

(***************************************************************************)
(* One caller that makes 1-unit acquires on one source, one after the      *)
(* other, with time passing in between.                                    *)
(***************************************************************************)
MaxSeqCalls == 52
SeqSlices == 4

\* the provider quotas the limiter is configured against: calls per period
\* (rate_limiter.py, RateLimiter docstring; settings.py)
QuotaSources == {"coingecko", "binance", "glassnode"}

quota == [coingecko |-> 50, binance |-> 1200, glassnode |-> 100]

\* seconds: a minute, a minute, a day
quota_period == [coingecko |-> 60, binance |-> 60, glassnode |-> 86400,
                 cryptoquant |-> 86400]

SeqTask == 1

\* s is the only source that has been called so far
OnlySource(s) == \A o \in Sources \ {s} : stats[o].total_requests = 0

SeqCall(s) ==
  /\ OnlySource(s)
  /\ calls < MaxSeqCalls
  /\ Call(SeqTask, s, "medium", 1)
  /\ UNCHANGED run

SeqWake == Wake(SeqTask) /\ UNCHANGED run

\* a gap between two calls, or a sleep that lasts longer than asked
SeqAdvance(s) ==
  /\ OnlySource(s)
  /\ stats[s].total_requests > 0
  /\ now < quota_period[s]
  /\ now' = now + quota_period[s] \div SeqSlices
  /\ UNCHANGED <<limiters, stats, task, calls, added, spent, result,
               request_queues>>
  /\ UNCHANGED <<notLimiter, run>>

NextSeq ==
  \/ \E s \in Sources : SeqCall(s)
  \/ SeqWake
  \/ \E s \in Sources : SeqAdvance(s)
  \/ AdvanceToWake /\ UNCHANGED run

SpecSeq == Init /\ [][NextSeq]_vars

(***************************************************************************)
(* Tasks that call acquire on one and the same source while the others are *)
(* still inside their call, under the same scheduling.                     *)
(***************************************************************************)
ContendCalls == 3

NextContend ==
  \/ /\ calls < ContendCalls
     /\ \E t \in Tasks, s \in Sources, priority \in PriorityChoices :
           \E u \in UnitChoices(s) :
              /\ NextCaller(t)
              /\ OnlySource(s)
              /\ \A o \in Tasks : task[o].pc # "idle" => task[o].source = s
              /\ Call(t, s, priority, u)
              /\ UNCHANGED run
  \/ \E t \in Tasks : GetLock(t) /\ UNCHANGED run
  \/ \E t \in Tasks : Wake(t) /\ UNCHANGED run
  \/ \E d \in Gaps : Advance(d) /\ UNCHANGED run
  \/ AdvanceToWake /\ UNCHANGED run

SpecContend ==
  /\ Init
  /\ [][NextContend]_vars
  /\ \A t \in Tasks : /\ WF_vars(GetLock(t) /\ UNCHANGED run)
                       /\ WF_vars(Wake(t) /\ UNCHANGED run)
  /\ WF_vars(AdvanceToWake /\ UNCHANGED run)

SpecCache == Init /\ [][NextCache]_vars

(***************************************************************************)
(* generate_signal on every combination of the arguments above.            *)
(***************************************************************************)
InitSignal ==
  /\ InitLimiter
  /\ InitCache
  /\ InitPipeline
  /\ fusion \in {Pending(p, t, a, m) :
                   p \in PriceChoices, t \in TechChoices, a \in AIChoices,
                   m \in MacroChoices}

SpecSignal == InitSignal /\ [][GenerateSignal]_vars

(***************************************************************************)
(* The scoring functions of the fusion engine, each called on its own on   *)
(* the arguments its callers can pass: a technical and a macro score are   *)
(* multiples of five (every term of their sums is), a sentiment score is a *)
(* whole number from 5 to 95, an optional class or number may be missing.  *)
(***************************************************************************)
\* a call of function fn that has not run yet
PendingCall(fn, args) ==
  [called |-> FALSE, fn |-> fn, args |-> args, ret |-> <<>>]

\* what the function of that name returns
Applied(fn, args) ==
  CASE fn = "calculate_technical_score" -> calculate_technical_score(args[1])
    [] fn = "_calculate_technical_score" ->
         _calculate_technical_score(args[1])
    [] fn = "_calculate_overall_score" ->
         _calculate_overall_score(args[1], args[2], args[3])
    [] fn = "_score_to_signal_type" -> _score_to_signal_type(args[1])
    [] fn = "_calculate_confidence" ->
         _calculate_confidence(args[1], args[2], args[3], args[4])
    [] fn = "_determine_trade_levels" ->
         _determine_trade_levels(args[1], args[2], args[3], args[4])
    [] fn = "_calculate_macro_score" -> _calculate_macro_score(args[1])
    [] fn = "_recommend_position_size" ->
         _recommend_position_size(args[1], args[2], args[3])
    [] fn = "analyze_candles" -> Interpret(args[1])
    [] fn = "bundle" -> analyze_candles(args[1], args[2])
    [] fn = "technical_scores" ->
         LET data == args[1]
             labels == Interpret(data)
         IN [indicators |->
               calculate_technical_score(
                 [rsi |-> data.rsi, macd_signal |-> labels.macd_signal,
                  trend |-> labels.trend, bb_signal |-> labels.bb_signal,
                  volume_ratio |-> data.volume_ratio]),
             fusion |-> _calculate_technical_score(TechModel(data))]
    [] fn = "indicator" ->
         IF args[1] = "calculate_ema"
         THEN calculate_ema(args[2], args[3], args[4])
         ELSE Calculated(args[1], args[2], args[4])

InitScoring ==
  /\ InitLimiter
  /\ InitCache
  /\ InitPipeline
  /\ \/ \E rsi \in {NoneNum, 0, 25, 30, 35, 40, 50, 60, 65, 70, 75, 100},
            macd_signal \in {"None", "NEUTRAL", "BULLISH", "BEARISH"},
            trend \in {"None", "UNKNOWN", "SIDEWAYS", "UPTREND",
                       "STRONG_UPTREND", "DOWNTREND", "STRONG_DOWNTREND"},
            bb_signal \in {"None", "NEUTRAL", "OVERSOLD", "OVERBOUGHT",
                           "SQUEEZE"},
            volume_ratio \in {NoneNum, 0, 4, 5, 10, 15, 16} :
          fusion =
            PendingCall("calculate_technical_score",
                        <<[rsi |-> rsi, macd_signal |-> macd_signal,
                           trend |-> trend, bb_signal |-> bb_signal,
                           volume_ratio |-> volume_ratio]>>)
     \/ \E technical \in TechChoices :
          fusion = PendingCall("_calculate_technical_score", <<technical>>)
     \/ \E i \in 0 .. 20, j \in -1 .. 20, s \in {NoneNum} \cup (5 .. 95) :
          fusion =
            PendingCall("_calculate_overall_score",
                        <<5 * i, IF j < 0 THEN NoneNum ELSE 5 * j, s>>)
     \/ \E score \in 0 .. 100 :
          fusion = PendingCall("_score_to_signal_type", <<score>>)
     \/ \E i \in 0 .. 20, j \in -1 .. 20, s \in {5, 30, 50, 72, 95},
            c \in {-1, 0, 60, 95, 100} :
          fusion =
            PendingCall("_calculate_confidence",
                        <<5 * i, IF j < 0 THEN NoneNum ELSE 5 * j,
                          IF c < 0 THEN NoneNum ELSE s,
                          IF c < 0 THEN NoAI
                          ELSE AIAnalysis("BUY", c,
                                 <<NoneNum, NoneNum, NoneNum, NoneNum,
                                   NoneNum>>)>>)
     \/ \E signal_type \in SignalTypes, price_data \in PriceChoices,
            bands \in {<<9000, 10000, 11000>>, <<0, 0, 0>>},
            ai_analysis \in
              {NoAI,
               AIAnalysis("BUY", 60,
                          <<NoneNum, NoneNum, NoneNum, NoneNum, NoneNum>>),
               AIAnalysis("SELL", 60,
                          <<NoneNum, 10500, 11500, 12500, 9000>>)} :
          fusion =
            PendingCall("_determine_trade_levels",
                        <<signal_type, price_data,
                          Technical(50, 1, bands, <<9800, 9700, 9600>>,
                                    NoneNum),
                          ai_analysis>>)
     \/ \E dxy \in {NoneNum, 94, 95, 99, 100, 105, 106, 110, 111},
            vix \in {NoneNum, 14, 15, 19, 20, 25, 26, 30, 31},
            fear_greed_index \in
              {NoneNum, 0, 1, 24, 25, 39, 40, 60, 61, 75, 76, 100} :
          fusion =
            PendingCall("_calculate_macro_score",
                        <<MacroContext(dxy, vix, fear_greed_index)>>)
     \/ \E signal_type \in SignalTypes, confidence \in 0 .. 100,
            change_24h \in {-11, -10, -6, -5, 0, 5, 6, 10, 11} :
          fusion =
            PendingCall("_recommend_position_size",
                        <<signal_type, confidence,
                          CoinPrice(10000, change_24h)>>)
     \/ \E rsi \in 0 .. 100 :
          fusion =
            PendingCall("analyze_candles",
                        <<[rsi |-> rsi, macd |-> 3, macd_signal_line |-> 2,
                           macd_histogram |-> 1, bb_upper |-> 11000,
                           bb_middle |-> 10000, bb_lower |-> 9000,
                           ema_20 |-> 9800, ema_50 |-> 9700,
                           ema_200 |-> 9600, volume_ratio |-> 10,
                           current_price |-> 10000]>>)
     \/ \E rsi \in {25, 50}, macd \in {1, 2, 3},
            bands \in {<<9000, 10000, 11000>>, <<9900, 10000, 10100>>},
            emas \in EmaChoices,
            current_price \in {8900, 9650, 10000, 10050, 10200, 11100},
            volume_ratio \in {10, 16} :
          fusion =
            PendingCall("technical_scores",
                        <<[rsi |-> rsi, macd |-> macd, macd_signal_line |-> 2,
                           macd_histogram |-> macd - 2,
                           bb_upper |-> bands[3], bb_middle |-> bands[2],
                           bb_lower |-> bands[1], ema_20 |-> emas[1],
                           ema_50 |-> emas[2], ema_200 |-> emas[3],
                           volume_ratio |-> volume_ratio,
                           current_price |-> current_price]>>)
     \/ \E bars \in {0, 14, 15, 19, 20, 21, 34, 35, 49, 50, 199, 200},
            data \in PipeTech :
          fusion = PendingCall("bundle", <<bars, data>>)
     \/ \E fn \in DOMAIN MinHistory \cup {"calculate_ema"},
            bars \in {0, 14, 15, 19, 20, 21, 34, 35, 49, 50, 199, 200},
            period \in {20, 50, 200} :
          fusion = PendingCall("indicator", <<fn, bars, period, 42>>)

\* the pending function runs on its arguments
Apply ==
  /\ ~fusion.called
  /\ fusion' = [fusion EXCEPT !.called = TRUE,
                              !.ret = Applied(fusion.fn, fusion.args)]
  /\ UNCHANGED <<rlVars, cacheVars, run>>

SpecScoring == InitScoring /\ [][Apply]_vars

(***************************************************************************)
(* The requests of the API, served after the application's startup.        *)
(***************************************************************************)
SpecPipeline == Init /\ [][NextPipeline]_vars

(***************************************************************************)
(* The REST methods of BinanceClient and CoinGeckoClient, called by the    *)
(* tasks of the event loop.  A method acquires on its source's gate, if    *)
(* the code does so, and then sends its request; _make_request answers a   *)
(* 429 by sleeping and calling itself again.  The CoinGecko bucket starts  *)
(* drained (45 acquires have just been made), so that an acquire waits.    *)
(***************************************************************************)
\* calls of request methods the tasks make in all, retries included
MaxRequests == 3

\* the hosts the requests go to
Hosts == {"binance", "coingecko", "alternative.me"}

\* a request method: the host it sends to, whether it acquires on the
\* host's gate before it sends, the priority it passes, whether it calls
\* itself again on a 429
ClientMethod(host, gated, priority, retries) ==
  [host |-> host, gated |-> gated, priority |-> priority, retries |-> retries]

ClientMethods ==
  [get_ticker_24h |-> ClientMethod("binance", TRUE, "high", FALSE),
   get_klines |-> ClientMethod("binance", TRUE, "medium", FALSE),
   get_order_book |-> ClientMethod("binance", TRUE, "high", FALSE),
   get_funding_rate |-> ClientMethod("binance", TRUE, "medium", FALSE),
   get_open_interest |-> ClientMethod("binance", TRUE, "low", FALSE),
   get_coin_data |-> ClientMethod("coingecko", TRUE, "high", TRUE),
   get_historical_prices |->
     ClientMethod("coingecko", TRUE, "low", TRUE),
   get_global_market_data |->
     ClientMethod("coingecko", TRUE, "medium", TRUE),
   get_trending_coins |-> ClientMethod("coingecko", TRUE, "low", TRUE),
   get_top_gainers_losers |->
     ClientMethod("coingecko", TRUE, "medium", TRUE),
   get_fear_greed_index |->
     ClientMethod("alternative.me", FALSE, "medium", FALSE)]

\* a task outside the clients; gates and sent (history) count, per host, the
\* acquires the task's methods have called and the requests they have sent
NewClient ==
  [pc |-> "idle", method |-> "", retry_at |-> 0, entered |-> 0,
   gates |-> [h \in Hosts |-> 0], sent |-> [h \in Hosts |-> 0]]

\* the calls of request methods made so far
Entered ==
  Cardinality({c \in Tasks \X (1 .. MaxRequests) : c[2] <= run[c[1]].entered})

InitClients ==
  /\ now = 0
  /\ limiters = [s \in Sources |->
       IF s = "coingecko" THEN [NewBucket(s) EXCEPT !.tokens = 0]
       ELSE NewBucket(s)]
  /\ stats = [s \in Sources |->
       IF s = "coingecko"
       THEN [NewStats EXCEPT !.total_requests = capacity[s],
                             !.successful_requests = capacity[s]]
       ELSE NewStats]
  /\ task = [t \in Tasks |-> IdleTask]
  /\ request_queues = [s \in Sources |-> NewQueue]
  /\ calls = capacity["coingecko"]
  /\ added = [s \in Sources |-> 0]
  /\ spent = [s \in Sources |-> IF s = "coingecko" THEN capacity[s] ELSE 0]
  /\ result = [t \in Tasks |-> NoResult]
  /\ InitCache
  /\ InitFusion
  /\ run = [t \in Tasks |-> NewClient]

\* a request method is called: its acquire, if it makes one
ClientCall(t, m) ==
  /\ run[t].pc = "idle"
  /\ Entered < MaxRequests
  /\ LET c == ClientMethods[m]
     IN IF ~c.gated
        THEN /\ run' = [run EXCEPT ![t] =
                  [@ EXCEPT !.pc = "send", !.method = m, !.entered = @ + 1]]
             /\ UNCHANGED <<rlVars, cacheVars, fusion>>
        ELSE /\ Call(t, c.host, c.priority, 1)
             /\ run' = [run EXCEPT ![t] =
                  [@ EXCEPT !.pc = "send", !.method = m, !.entered = @ + 1,
                            !.gates[c.host] = @ + 1]]

\* the acquire, if any, has returned: the request is sent and answered with
\* a status and, on a 429, a Retry-After (60 seconds if the header is missing)
ClientSend(t, status, retry_after) ==
  /\ run[t].pc = "send"
  /\ task[t].pc = "idle"
  /\ LET c == ClientMethods[run[t].method]
     IN run' = [run EXCEPT ![t] =
          IF status = 429 /\ c.retries
          THEN [@ EXCEPT !.pc = "backoff", !.sent[c.host] = @ + 1,
                         !.retry_at = now + retry_after]
          ELSE [@ EXCEPT !.pc = "idle", !.method = "", !.retry_at = 0,
                         !.sent[c.host] = @ + 1]]
  /\ UNCHANGED <<rlVars, cacheVars, fusion>>

\* _make_request, lines 101-102: the sleep is over, the method calls itself
ClientRetry(t) ==
  /\ run[t].pc = "backoff"
  /\ Entered < MaxRequests
  /\ now >= run[t].retry_at
  /\ LET c == ClientMethods[run[t].method]
     IN /\ Call(t, c.host, c.priority, 1)
        /\ run' = [run EXCEPT ![t] =
             [@ EXCEPT !.pc = "send", !.entered = @ + 1, !.retry_at = 0,
                       !.gates[c.host] = @ + 1]]

NextClients ==
  \/ \E t \in Tasks, m \in DOMAIN ClientMethods :
        NextCaller(t) /\ ClientCall(t, m)
  \/ \E t \in Tasks, status \in {200, 429, 500}, retry_after \in {0, 60} :
        ClientSend(t, status, retry_after)
  \/ \E t \in Tasks : ClientRetry(t)
  \/ \E t \in Tasks : GetLock(t) /\ UNCHANGED run
  \/ \E t \in Tasks : Wake(t) /\ UNCHANGED run
  \/ \E d \in Gaps : Advance(d) /\ UNCHANGED run
  \/ AdvanceToWake /\ UNCHANGED run

SpecClients == InitClients /\ [][NextClients]_vars

(***************************************************************************)
(* Claims about the admission controller                                   *)
(***************************************************************************)
InRange(s) ==
  /\ limiters[s].tokens >= 0
  /\ limiters[s].tokens <= capacity[s] * TokenScale

\* C1: for every source, after any sequence of acquire calls with any
\* positive number of units (also more than the capacity), sequential or
\* concurrent, 0 <= tokens <= capacity at every observation point.
C1_TokensInRange == \A s \in Sources : InRange(s)

\* C2: from the full bucket and under 1-unit acquires, the acquires granted
\* on a source inside a window of the provider's quota period (here the one
\* that starts with the limiter) never outnumber the provider's quota.
C2_WithinQuota ==
  \A s \in QuotaSources :
     now < quota_period[s] => stats[s].successful_requests <= quota[s]

\* C3: acquire never rejects: every acquire on a configured source that has
\* returned has returned True, and the tokens of every such acquire, and
\* nothing else, have been debited from that source's bucket.
C3_NeverRejects ==
  /\ \A t \in Tasks : result[t].returned => result[t].value = TRUE
  /\ \A s \in Sources :
        limiters[s].tokens =
          capacity[s] * TokenScale + added[s] - spent[s] * TokenScale

C3_Witness ==
  \E t \in Tasks :
     /\ result[t].value = TRUE
     /\ result[t].source \in Sources
     /\ result[t].waited > 0
     /\ spent[result[t].source] > capacity[result[t].source]

\* an acquire for more than the bucket holds
Oversized(r) == r.source \in Sources /\ r.units > capacity[r.source]

\* C4: an acquire for more units than the capacity returns in the end (time
\* advancing), and not before (units - initial_tokens) / refill_rate seconds
\* have passed since the call, initial_tokens being the tokens available
\* when it was called.
C4_OversizedAcquire ==
  /\ \A t \in Tasks :
        (task[t].pc # "idle" /\ Oversized(task[t])) ~> (task[t].pc = "idle")
  /\ [](\A t \in Tasks :
          Oversized(result[t]) =>
            result[t].waited >=
              WakeAfter(result[t].units * TokenScale - result[t].avail,
                        result[t].source))

C4_Witness ==
  \E t \in Tasks :
     /\ Oversized(result[t])
     /\ result[t].value = TRUE
     /\ result[t].avail < capacity[result[t].source] * TokenScale
     /\ result[t].waited > 0

\* C5: after N sequential 1-unit acquires on a source, with any gaps between
\* them, the token count is neither negative nor above the capacity.
C5_SequentialInRange ==
  \A s \in Sources : OnlySource(s) => InRange(s)

\* more 1-unit acquires than the bucket holds have returned, the last ones
\* after a wait
C5_Witness ==
  \E s \in Sources :
     /\ stats[s].successful_requests > capacity[s] + 1
     /\ stats[s].total_wait_time > 0
     /\ limiters[s].tokens < TokenScale

(***************************************************************************)
(* Claims about the tiered cache                                           *)
(***************************************************************************)
\* C6: in primary and in fallback mode, a get(key) after set(key, v, ttl)
\* with no set or delete of the key in between (and no fault of the store)
\* returns v at every instant before set-time + ttl and a miss from then on.
C6_GetAfterSet ==
  (/\ last_op.op = "get"
   /\ last_op.fault = "none"
   /\ last_set[last_op.key].valid)
  => LET st == last_set[last_op.key]
     IN IF last_op.at < st.at + st.ttl
        THEN last_op.ret = st.value
        ELSE last_op.ret = None

\* C7: once the primary tier has failed, in connect() or in a call, the
\* cache is on its fallback store: no later operation goes to the primary.
C7_StaysOnFallback == primary_failed => ~UsesPrimary

\* C8: no cache operation raises: on a fault of serialization or of the
\* store's I/O get returns a miss and set, delete and clear_pattern change
\* neither store.
C8_NoFaultEscapes ==
  /\ [](/\ last_op.raised = FALSE
        /\ (last_op.fault # "none" => last_op.ret = None))
  /\ [][(cache_ops' # cache_ops /\ last_op'.fault # "none")
          => (redis_store' = redis_store /\ fallback_cache' = fallback_cache)]_vars

\* a set met an unreachable primary tier while the store held the key
C8_Witness ==
  /\ last_op.op = "set"
  /\ last_op.fault = "io"
  /\ last_op.raised = FALSE
  /\ redis_store[last_op.key].present

(***************************************************************************)
(* Claims about the signal fusion engine and the pipeline                  *)
(***************************************************************************)
\* C9: generate_signal never delivers a fault: when a step of the fusion
\* raises, the result is the safe default (hold, confidence 0, no entry zone,
\* no targets, no stop) and its technical score is the one the technical
\* layer had computed before the failure.
C9_SafeDefault ==
  (fusion.called /\ fusion.raised) =>
    /\ fusion.signal.signal = "HOLD"
    /\ fusion.signal.confidence = 0
    /\ fusion.signal.entry_zone.kind = "None"
    /\ fusion.signal.targets = <<>>
    /\ fusion.signal.stop_loss = NoneNum
    /\ fusion.signal.technical_score =
         _calculate_technical_score(fusion.technical)

\* C10: a request whose ticker and bar series were both fetched is never
\* answered with an error, whatever the length of the series: it is answered
\* 200 with a (partial or default) result.
C10_FetchedNeverFails ==
  \A r \in Tasks :
     (run[r].pc = "done" /\ run[r].ticker /\ run[r].klines)
       => run[r].status = 200

(***************************************************************************)
(* Claims about the scoring functions                                      *)
(***************************************************************************)
\* C11: calculate_technical_score returns a value from 0 to 100 for every
\* indicator bundle (momentum value, oscillator class, trend class, channel
\* class, volume ratio, each possibly unavailable), as does the technical
\* score the fusion engine derives from a TechnicalIndicators; for the bundle
\* in which every field is unavailable it returns the neutral 50.
C11_TechnicalScoreInRange ==
  /\ (fusion.called /\ fusion.fn = "calculate_technical_score") =>
        /\ fusion.ret \in 0 .. 100
        /\ (fusion.args[1] =
              [rsi |-> NoneNum, macd_signal |-> "None", trend |-> "None",
               bb_signal |-> "None", volume_ratio |-> NoneNum]
            => fusion.ret = 50)
  /\ (fusion.called /\ fusion.fn = "_calculate_technical_score") =>
        fusion.ret \in 0 .. 100

\* the score of the bundle whose every field is unavailable
C11_Witness ==
  /\ fusion.called
  /\ fusion.fn = "calculate_technical_score"
  /\ fusion.args[1].rsi = NoneNum
  /\ fusion.args[1].macd_signal = "None"
  /\ fusion.args[1].trend = "None"
  /\ fusion.args[1].bb_signal = "None"
  /\ fusion.args[1].volume_ratio = NoneNum
  /\ fusion.ret = 50

C13_Breakpoints ==
  (fusion.called /\ fusion.fn = "_score_to_signal_type") =>
    LET score == fusion.args[1]
        rank == [STRONG_SELL |-> 0, SELL |-> 1, WEAK_SELL |-> 2, HOLD |-> 3,
                 WEAK_BUY |-> 4, BUY |-> 5, STRONG_BUY |-> 6]
    IN /\ (fusion.ret = "STRONG_BUY") <=> (score >= 80)
       /\ (fusion.ret = "BUY") <=> (65 <= score /\ score < 80)
       /\ (fusion.ret = "WEAK_BUY") <=> (55 <= score /\ score < 65)
       /\ (fusion.ret = "HOLD") <=> (45 <= score /\ score < 55)
       /\ (fusion.ret = "WEAK_SELL") <=> (35 <= score /\ score < 45)
       /\ (fusion.ret = "SELL") <=> (20 <= score /\ score < 35)
       /\ (fusion.ret = "STRONG_SELL") <=> (score < 20)
       /\ \A lower \in 0 .. score :
             rank[_score_to_signal_type(lower)] <= rank[fusion.ret]

\* the score 80, the lowest strong-buy
C13_Witness ==
  /\ fusion.called
  /\ fusion.fn = "_score_to_signal_type"
  /\ fusion.args = <<80>>
  /\ fusion.ret = "STRONG_BUY"

\* C14: the confidence starts from the sentiment provider's confidence, or
\* from 50 without a sentiment result; with at least two layer scores of
\* population variance below 100 it is min(100, base + 10), of variance above
\* 400 max(0, base - 15), and else the base; scores 70, 75, 72 on a base of
\* 60 give 70; the result lies from 0 to 100.  (With n scores of sum S and
\* sum of squares Q the variance is (n * Q - S * S) / (n * n).)
C14_Confidence ==
  (fusion.called /\ fusion.fn = "_calculate_confidence") =>
    LET present == {i \in 1 .. 3 : fusion.args[i] # NoneNum}
        n == Cardinality(present)
        score(i) == IF i \in present THEN fusion.args[i] ELSE 0
        S == score(1) + score(2) + score(3)
        Q == score(1) * score(1) + score(2) * score(2) + score(3) * score(3)
        base == IF fusion.args[4].present THEN fusion.args[4].confidence
                ELSE 50
    IN /\ (n >= 2 /\ n * Q - S * S < 100 * n * n)
            => fusion.ret = (IF base + 10 > 100 THEN 100 ELSE base + 10)
       /\ (n >= 2 /\ n * Q - S * S > 400 * n * n)
            => fusion.ret = (IF base - 15 < 0 THEN 0 ELSE base - 15)
       /\ (n < 2 \/ (/\ n * Q - S * S >= 100 * n * n
                     /\ n * Q - S * S <= 400 * n * n))
            => fusion.ret = base
       /\ fusion.ret \in 0 .. 100
       /\ ((/\ fusion.args[1] = 70 /\ fusion.args[2] = 75
            /\ fusion.args[3] = 72 /\ base = 60) => fusion.ret = 70)

\* the layers 70, 75 and 72 agree and lift a base of 60 to 70
C14_Witness ==
  /\ fusion.called
  /\ fusion.fn = "_calculate_confidence"
  /\ fusion.args[1] = 70
  /\ fusion.args[2] = 75
  /\ fusion.args[3] = 72
  /\ fusion.args[4].confidence = 60
  /\ fusion.ret = 70

\* C15 (as stated): without an entry level from the sentiment provider,
\* strong-buy and buy get the entry zone 0.98p to 1.02p, the targets 1.1p,
\* 1.2p and 1.3p and as stop the lower band, or 0.92p without one; the sell
\* classes get no entry, no targets and no stop; hold and weak-buy get the
\* wait placeholder, no targets and no stop.
C15_TradeLevels ==
  (fusion.called /\ fusion.fn = "_determine_trade_levels") =>
    LET signal_type == fusion.args[1]
        p == fusion.args[2].price
        bb_lower == fusion.args[3].bb_lower
    IN /\ signal_type \in {"STRONG_BUY", "BUY"} =>
            /\ fusion.ret.entry_zone =
                 Zone("range", Dollars((98 * p) \div 100),
                      Dollars((102 * p) \div 100))
            /\ fusion.ret.targets =
                 <<(110 * p) \div 100, (120 * p) \div 100, (130 * p) \div 100>>
            /\ fusion.ret.stop_loss =
                 (IF bb_lower > 0 THEN bb_lower ELSE (92 * p) \div 100)
       /\ signal_type \in {"WEAK_SELL", "SELL", "STRONG_SELL"} =>
            /\ fusion.ret.entry_zone.kind = "None"
            /\ fusion.ret.targets = <<>>
            /\ fusion.ret.stop_loss = NoneNum
       /\ signal_type \in {"HOLD", "WEAK_BUY"} =>
            /\ fusion.ret.entry_zone.kind = "Wait for better setup"
            /\ fusion.ret.targets = <<>>
            /\ fusion.ret.stop_loss = NoneNum

\* C15 (amended): the same, but the sell classes get the entry-zone text
\* "Current price ($p)", with no targets and no stop; the price 100 gives
\* strong-buy the zone $98-$102, the targets 110, 120 and 130 and the stop 92
\* when the band is unavailable.
C15_TradeLevelsExitText ==
  (fusion.called /\ fusion.fn = "_determine_trade_levels") =>
    LET signal_type == fusion.args[1]
        p == fusion.args[2].price
        bb_lower == fusion.args[3].bb_lower
    IN /\ fusion.ret.raised = FALSE
       /\ signal_type \in {"STRONG_BUY", "BUY"} =>
            /\ fusion.ret.entry_zone =
                 Zone("range", Dollars((98 * p) \div 100),
                      Dollars((102 * p) \div 100))
            /\ fusion.ret.targets =
                 <<(110 * p) \div 100, (120 * p) \div 100, (130 * p) \div 100>>
            /\ fusion.ret.stop_loss =
                 (IF bb_lower > 0 THEN bb_lower ELSE (92 * p) \div 100)
            /\ (p = 10000 =>
                  /\ fusion.ret.entry_zone = Zone("range", 98, 102)
                  /\ fusion.ret.targets = <<11000, 12000, 13000>>
                  /\ fusion.ret.stop_loss \in {bb_lower, 9200})
       /\ signal_type \in {"WEAK_SELL", "SELL", "STRONG_SELL"} =>
            /\ fusion.ret.entry_zone =
                 Zone("Current price", Dollars(p), NoneNum)
            /\ fusion.ret.targets = <<>>
            /\ fusion.ret.stop_loss = NoneNum
       /\ signal_type \in {"HOLD", "WEAK_BUY"} =>
            /\ fusion.ret.entry_zone.kind = "Wait for better setup"
            /\ fusion.ret.targets = <<>>
            /\ fusion.ret.stop_loss = NoneNum

\* a strong-buy at the price 100 with no band: the stop is 92
C15_Witness ==
  /\ fusion.called
  /\ fusion.fn = "_determine_trade_levels"
  /\ fusion.args[1] = "STRONG_BUY"
  /\ fusion.args[2].price = 10000
  /\ fusion.args[3].bb_lower = 0
  /\ fusion.ret.entry_zone = Zone("range", 98, 102)
  /\ fusion.ret.targets = <<11000, 12000, 13000>>
  /\ fusion.ret.stop_loss = 9200

(***************************************************************************)
(* Claims about the API clients and the concurrency of the gate            *)
(***************************************************************************)
\* C16: every request a method of the Binance or the CoinGecko client sends,
\* a retry after a 429 included, comes after a completed acquire: a task has
\* never sent more requests to a host than it has had acquires return for
\* that host, and every request has been paid for with a spent token
C16_AcquireBeforeRequest ==
  \A t \in Tasks, h \in Hosts :
     /\ run[t].sent[h] <=
          run[t].gates[h] -
            (IF task[t].pc # "idle" /\ task[t].source = h THEN 1 ELSE 0)
     /\ run[t].sent[h] > 0 => h \in Sources /\ spent[h] > 0

\* C17: the mutation of one source's bucket is mutually exclusive, also
\* while an acquire sleeps for its deficit: at most one task per source is
\* between its refill and its debit, it holds the bucket's lock, and the
\* holder and the waiters of a lock are tasks of its source.  Different sources
\* do not contend: a step changes the bucket of one source at most, the
\* source of the task that takes the step, and leaves every task that is
\* inside an acquire on another source as it was; the only step that changes
\* the tokens of a bucket on which a task sleeps is that task's own wake-up
C17_SerializedPerSource ==
  /\ [](\A t \in Tasks :
          /\ task[t].pc = "sleep" =>
               /\ limiters[task[t].source].locked = t
               /\ \A o \in Tasks \ {t} :
                     task[o].pc = "sleep" => task[o].source # task[t].source
          /\ task[t].pc = "lock" =>
               /\ \E i \in 1 .. Len(limiters[task[t].source].waiters) :
                     limiters[task[t].source].waiters[i] = t
               /\ \A s \in Sources \ {task[t].source} :
                     \A i \in 1 .. Len(limiters[s].waiters) :
                        limiters[s].waiters[i] # t
          /\ \A s \in Sources :
               /\ limiters[s].locked = t =>
                    task[t].pc = "sleep" /\ task[t].source = s
               /\ \A i \in 1 .. Len(limiters[s].waiters) :
                     limiters[s].waiters[i] = t =>
                       task[t].pc = "lock" /\ task[t].source = s)
  /\ [][\A s \in Sources :
          limiters'[s] # limiters[s] =>
            /\ \A o \in Sources \ {s} :
                  /\ limiters'[o] = limiters[o]
                  /\ stats'[o] = stats[o]
                  /\ spent'[o] = spent[o]
            /\ \A t \in Tasks :
                  task'[t] # task[t] =>
                    /\ s \in {task[t].source, task'[t].source}
                    /\ \A o \in Tasks \ {t} : task'[o] = task[o]
            /\ \A t \in Tasks :
                  (task[t].pc = "sleep" /\ task[t].source = s
                     /\ limiters'[s].tokens # limiters[s].tokens)
                  => task'[t].pc = "idle" /\ result'[t].returned]_vars

\* one task sleeps on a source with its lock held, a second one waits for
\* that lock, and a third one, which called later on another source, has
\* returned without a wait
C17_Witness ==
  \E a, b, c \in Tasks :
     /\ task[a].pc = "sleep"
     /\ task[b].pc = "lock" /\ task[b].source = task[a].source
     /\ task[c].pc = "idle"
     /\ result[c].returned
     /\ result[c].source \in Sources \ {task[a].source}
     /\ result[c].waited = 0
     /\ limiters[result[c].source].tokens <
          capacity[result[c].source] * TokenScale

\* C18: of the tasks that call acquire on one source while the others are
\* inside their call, every one returns in the end, with time advancing and
\* a fair scheduler: no caller stays in the lock's queue or asleep for ever
C18_EveryCallerReturns ==
  \A t \in Tasks :
     (task[t].pc # "idle")
       ~> (task[t].pc = "idle" /\ result[t].returned /\ result[t].value)

\* every task has made one call on the same source (a task calls only while
\* the tasks before it are inside their calls, so the calls overlapped), all
\* have returned, and the last caller after a wait
C18_Witness ==
  /\ calls = NumTasks
  /\ \A t \in Tasks :
        /\ task[t].pc = "idle"
        /\ result[t].returned
        /\ result[t].source \in Sources
        /\ result[t].source = result[1].source
  /\ result[NumTasks].waited > 0
  /\ stats[result[1].source].total_requests = NumTasks

\* C19: the priority passed to acquire decides nothing.  The per-source
\* priority queues stay empty; the waiters of a bucket's lock stand in the
\* order of their calls, whatever their priorities; the lock goes to the
\* waiter that called first, and a caller takes it at once only when nobody
\* holds it or waits for it; and every acquire returns True
C19_PriorityUnused ==
  /\ [](/\ \A s \in Sources : request_queues[s] = NewQueue
        /\ \A s \in Sources :
              \A i, j \in 1 .. Len(limiters[s].waiters) :
                 i < j => task[limiters[s].waiters[i]].ticket <
                            task[limiters[s].waiters[j]].ticket
        /\ \A t \in Tasks : result[t].returned => result[t].value = TRUE)
  /\ [][\A t \in Tasks :
          /\ (task[t].pc = "lock" /\ task'[t].pc # "lock") =>
                \A o \in Tasks \ {t} :
                   (task[o].pc = "lock" /\ task[o].source = task[t].source)
                   => task[t].ticket < task[o].ticket
          /\ (task[t].pc = "idle" /\ task'[t].pc = "sleep") =>
                \A o \in Tasks \ {t} :
                   task[o].pc # "idle" => task[o].source # task'[t].source
          /\ \A s \in Sources :
                (task' = task /\ spent'[s] # spent[s]) =>
                   (task[t].pc # "idle" => task[t].source # s)]_vars

\* a caller of low priority that had waited for the lock has been given it
\* and sleeps, while a critical caller that called after it, and before the
\* lock was handed over, still waits
C19_Witness ==
  \E a, b \in Tasks :
     /\ task[a].pc = "sleep" /\ task[a].priority = "low"
     /\ task[a].sleep_from > task[a].start_time
     /\ task[b].pc = "lock" /\ task[b].priority = "critical"
     /\ task[b].source = task[a].source
     /\ task[a].ticket < task[b].ticket
     /\ task[b].start_time < task[a].sleep_from

\* C20: requests for the same symbol that are served at the same time are
\* not deduplicated.  A request that reads the signal cache before any
\* request has written it misses, whatever the other requests are doing;
\* every request that missed makes both rate-gated fetches, each acquire
\* spending a token of its own, and writes the cache; a write replaces the
\* entry another request wrote, so that the entry is the one written last
C20_NotDeduplicated ==
  /\ [](\A r \in Tasks :
          /\ (run[r].pc \in {"ai", "store"}
                \/ (run[r].pc = "done" /\ run[r].status = 200 /\ ~run[r].hit))
              => (run[r].acquires = 2 /\ run[r].ticker /\ run[r].klines)
          /\ (run[r].pc = "done" /\ run[r].status = 200 /\ ~run[r].hit)
              => run[r].stored
          /\ spent["binance"] =
               Cardinality({c \in Tasks \X (1 .. 2) :
                              c[2] <= run[c[1]].acquires})
          /\ limiters["binance"].tokens >=
               (capacity["binance"] - spent["binance"]) * TokenScale)
  /\ [][\A r \in Tasks :
          LET k == _make_signal_key("BTC")
          IN /\ (run[r].pc = "check" /\ run'[r].pc # "check"
                   /\ ~last_set[k].valid)
                 => (run'[r].pc = "ticker" /\ ~run'[r].hit)
             /\ (run[r].pc = "store" /\ run'[r].pc = "done")
                 => /\ last_set'[k].value = Result(r)
                    /\ IF UsesPrimary
                       THEN redis_store'[k] =
                              Entry(Dumps(Result(r)), now + TTL_TECHNICAL)
                       ELSE fallback_cache'[k] =
                              Entry(Result(r), now + TTL_TECHNICAL)]_vars

\* two requests for the same symbol have both missed, both made their two
\* acquires and both written the cache, with no time passing (so that both
\* read before either wrote); the entry is the one of the request that wrote
\* last, and the other one's is gone
C20_Witness ==
  \E r, o \in Tasks :
     /\ r # o
     /\ now = 0
     /\ \A x \in {r, o} :
           /\ run[x].pc = "done" /\ run[x].status = 200
           /\ ~run[x].hit /\ run[x].stored /\ run[x].acquires = 2
           /\ run[x].symbol = run[r].symbol
     /\ spent["binance"] = 4
     /\ last_set[_make_signal_key(run[r].symbol)].value = Result(r)
     /\ IF UsesPrimary
        THEN redis_store[_make_signal_key(run[r].symbol)].value =
               Dumps(Result(r))
        ELSE fallback_cache[_make_signal_key(run[r].symbol)].value = Result(r)

(***************************************************************************)
(* Claims about the order of a pipeline run and about the fusion engine    *)
(***************************************************************************)
\* C21: a run goes from the cache check to the two rate-gated fetches, the
\* indicators, the fusion and the cache store, in this order.  A run that
\* hit the cache returns the cached value and has made no acquire, spent no
\* token, fetched nothing and written nothing; the cache is written only by
\* a run whose signal has been fused, and a run that failed has not written
C21_PipelineOrder ==
  /\ [](\A r \in Tasks :
          /\ run[r].hit =>
                /\ run[r].pc = "done" /\ run[r].status = 200
                /\ run[r].body # None
                /\ run[r].acquires = 0
                /\ ~run[r].ticker /\ ~run[r].klines
                /\ ~run[r].fused /\ ~run[r].stored
          /\ run[r].pc \in {"ticker_fetch", "klines"} => run[r].acquires = 1
          /\ run[r].ticker => run[r].acquires >= 1
          /\ run[r].klines => (run[r].ticker /\ run[r].acquires = 2)
          /\ run[r].fused => run[r].klines
          /\ run[r].stored => (run[r].fused /\ run[r].pc = "done")
          /\ (run[r].pc = "done" /\ run[r].status # 200) =>
                (~run[r].stored /\ ~run[r].fused))
  /\ [][\A r \in Tasks :
          /\ (run[r].pc = "check" /\ run'[r].hit) =>
                /\ run'[r].body = last_op'.ret
                /\ UNCHANGED <<limiters, spent, stats, calls, redis_store,
                               fallback_cache, last_set>>
          /\ (last_set' # last_set \/ redis_store' # redis_store) =>
                \E w \in Tasks :
                   /\ run[w].pc = "store" /\ run[w].fused
                   /\ run'[w].pc = "done"
          /\ spent' # spent =>
                \E w \in Tasks :
                   /\ run[w].pc \in {"ticker", "klines"} /\ ~run[w].hit
                   /\ run'[w].acquires = run[w].acquires + 1]_vars

\* one run has missed, fetched, fused and written; a second run has then
\* hit and returned the first one's entry without an acquire
C21_Witness ==
  \E r, o \in Tasks :
     /\ run[r].pc = "done" /\ run[r].hit /\ run[r].acquires = 0
     /\ run[r].body.by = o
     /\ run[o].stored /\ run[o].acquires = 2
     /\ spent["binance"] = 2
     /\ last_set[_make_signal_key(run[o].symbol)].value = Result(o)

\* C22: when the sentiment provider supplies some of the levels (entry low,
\* entry high, conservative and aggressive target, stop), generate_signal
\* meets no fault and its signal holds every supplied level as it was given
\* and, for a missing target or stop, the default 1.1p, 1.2p or 0.9p
C22_LevelsVerbatim ==
  LET ai == fusion.ai_analysis
      p  == fusion.price_data.price
      sg == fusion.signal
  IN (/\ fusion.called
      /\ ai.present
      /\ \E f \in {ai.entry_zone_low, ai.entry_zone_high,
                    ai.target_conservative, ai.target_aggressive,
                    ai.stop_loss} : f # NoneNum)
     => /\ ~fusion.raised
        /\ ai.entry_zone_low # NoneNum =>
              sg.entry_zone.low = Dollars(ai.entry_zone_low)
        /\ ai.entry_zone_high # NoneNum =>
              sg.entry_zone.high = Dollars(ai.entry_zone_high)
        /\ Len(sg.targets) >= 2
        /\ sg.targets[1] = (IF ai.target_conservative # NoneNum
                            THEN ai.target_conservative ELSE Times(p, 110))
        /\ sg.targets[2] = (IF ai.target_aggressive # NoneNum
                            THEN ai.target_aggressive ELSE Times(p, 120))
        /\ sg.stop_loss = (IF ai.stop_loss # NoneNum
                           THEN ai.stop_loss ELSE Times(p, 90))

(***************************************************************************)
(* Claims about the indicator engine                                       *)
(***************************************************************************)
\* C23: the momentum value of the bundle is classed oversold below 30,
\* bearish from 30 to below 40, neutral from 40 to below 60, bullish from 60
\* to below 70 and overbought from 70 on, for every value from 0 to 100
C23_MomentumClasses ==
  (fusion.called /\ fusion.fn = "analyze_candles") =>
    LET rsi == fusion.args[1].rsi
    IN fusion.ret.rsi_signal =
         (IF rsi < 30 THEN "OVERSOLD"
          ELSE IF rsi < 40 THEN "BEARISH"
          ELSE IF rsi < 60 THEN "NEUTRAL"
          ELSE IF rsi < 70 THEN "BULLISH"
          ELSE "OVERBOUGHT")

\* C24: analyze_candles produces the bundle only for a series of at least
\* 200 bars, the window of the long trend average, and the empty result for
\* every shorter one; and each indicator is unavailable (None), not a
\* fault, on a series shorter than its own minimum history
C24_LongestWindow ==
  /\ (fusion.called /\ fusion.fn = "bundle") =>
        (fusion.ret.empty <=> fusion.args[1] < 200)
  /\ (fusion.called /\ fusion.fn = "indicator") =>
        LET fn   == fusion.args[1]
            bars == fusion.args[2]
            min  == IF fn = "calculate_ema" THEN fusion.args[3]
                    ELSE MinHistory[fn]
        IN fusion.ret = (IF bars < min THEN NoneNum ELSE fusion.args[4])

\* C25: the macro score is 50 plus one adjustment per supplied input, by
\* band (dollar index +20 below 95, +10 below 100, -20 above 110, -10 above
\* 105; volatility index +15 below 15, +5 below 20, -15 above 30, -5 above
\* 25; fear and greed +15 below 25, +5 below 40, -15 above 75, -5 above 60),
\* clamped to 0 .. 100; a supplied fear and greed value of 0 is in the band
\* below 25 and adds 15 like every other value of that band
C25_MacroBands ==
  (fusion.called /\ fusion.fn = "_calculate_macro_score") =>
    LET macro == fusion.args[1]
        Band(x, low2, low1, high1, high2, big, small) ==
          IF x = NoneNum THEN 0
          ELSE IF x < low2 THEN big
          ELSE IF x < low1 THEN small
          ELSE IF x > high2 THEN -big
          ELSE IF x > high1 THEN -small ELSE 0
        sum == 50 + Band(macro.dxy, 95, 100, 105, 110, 20, 10)
                  + Band(macro.vix, 15, 20, 25, 30, 15, 5)
                  + Band(macro.fear_greed_index, 25, 40, 60, 75, 15, 5)
    IN fusion.ret = (IF sum < 0 THEN 0 ELSE IF sum > 100 THEN 100 ELSE sum)

\* C26: the position size (here in tenths of a percent) is the base size of
\* the class (10, 7, 3 percent for the three buy classes, else 0) times
\* confidence / 100 times 0.7 if the 24h change exceeds 10 in magnitude,
\* 0.85 if it exceeds 5, else 1, rounded to a tenth; it is 0 for the hold
\* and sell classes, never negative and never above the base size
C26_PositionSize ==
  (fusion.called /\ fusion.fn = "_recommend_position_size") =>
    LET signal_type == fusion.args[1]
        confidence  == fusion.args[2]
        change_24h  == fusion.args[3].change_24h
        base == CASE signal_type = "STRONG_BUY" -> 10
                  [] signal_type = "BUY" -> 7
                  [] signal_type = "WEAK_BUY" -> 3
                  [] OTHER -> 0
        factor == IF change_24h > 10 \/ change_24h < -10 THEN 70
                  ELSE IF change_24h > 5 \/ change_24h < -5 THEN 85
                  ELSE 100
        exact == base * confidence * factor
    IN /\ 1000 * fusion.ret - exact \in -500 .. 500
       /\ base = 0 => fusion.ret = 0
       /\ fusion.ret >= 0
       /\ fusion.ret <= 10 * base

\* a buy of confidence 95 on a day that moved 11 percent is sized 4.7
\* percent (7 * 0.95 * 0.7 = 4.655), and a sell is sized 0
C26_Witness ==
  /\ fusion.called
  /\ fusion.fn = "_recommend_position_size"
  /\ fusion.args[1] = "BUY"
  /\ fusion.args[2] = 95
  /\ fusion.args[3].change_24h = -11
  /\ fusion.ret \in {46, 47}

C28_StatsPerSource ==
  /\ [](\A s \in Sources :
          stats[s].total_requests =
            stats[s].successful_requests + stats[s].failed_requests)
  /\ [][\A s \in Sources :
          spent'[s] # spent[s] =>
            /\ stats'[s].total_requests = stats[s].total_requests + 1
            /\ stats'[s].successful_requests =
                 stats[s].successful_requests + 1
            /\ stats'[s].failed_requests = stats[s].failed_requests
            /\ stats'[s].total_wait_time >= stats[s].total_wait_time
            /\ \A o \in Sources \ {s} :
                  stats'[o] = stats[o] /\ limiters'[o] = limiters[o]]_vars

\* the counters of a source were reset while a task slept inside acquire on
\* it, and the acquire has completed since: one request counted, one
\* succeeded, although two acquires have debited the source
C28_Witness ==
  \E s \in Sources :
    /\ spent[s] >= 2
    /\ stats[s].total_requests = 1
    /\ stats[s].successful_requests = 1
    /\ stats[s].total_wait_time > 0
    /\ \A t \in Tasks : task[t].pc = "idle"

(***************************************************************************)
(* Claims that relate the two engines, and about the signal as a whole.    *)
(***************************************************************************)
\* C29: for the same data, the technical score that the fusion engine
\* computes from the indicator record equals the score that the indicator
\* engine computes from the labels of the analyze_candles bundle, also for a
\* zero histogram, a squeeze and a price outside the bands
C29_PathsAgree ==
  (fusion.called /\ fusion.fn = "technical_scores") =>
    fusion.ret.indicators = fusion.ret.fusion

\* C30: every signal generate_signal returns, computed or the default of a
\* fault, is consistent: the overall score, the confidence and every layer
\* score that is present lie in 0 .. 100, the class is the one the
\* breakpoints give the returned overall score, and the position size is 0
\* whenever the class is hold or one of the sell classes
C30_ConsistentSignal ==
  fusion.called =>
    LET sig == fusion.signal
        Percent(x) == x \in 0 .. 100
        score == sig.overall_score
    IN /\ Percent(score)
       /\ Percent(sig.confidence)
       /\ Percent(sig.technical_score)
       /\ sig.macro_score # NoneNum => Percent(sig.macro_score)
       /\ sig.sentiment_score # NoneNum => Percent(sig.sentiment_score)
       /\ sig.signal =
            (IF score >= 80 THEN "STRONG_BUY" ELSE IF score >= 65 THEN "BUY"
             ELSE IF score >= 55 THEN "WEAK_BUY" ELSE IF score >= 45 THEN "HOLD"
             ELSE IF score >= 35 THEN "WEAK_SELL"
             ELSE IF score >= 20 THEN "SELL" ELSE "STRONG_SELL")
       /\ sig.signal \in {"HOLD", "WEAK_SELL", "SELL", "STRONG_SELL"} =>
            sig.position_size_pct = 0

==============================================================================
